---- MODULE Spec2Model ----
(***************************************************************************)
(* Model of the cycling engine of nicotine (src/src/cycle_state.rs):       *)
(* CycleState {current_index, windows}, its operations, the index file it  *)
(* mirrors the index to, and the backend calls each operation issues.      *)
(*                                                                         *)
(* Every engine operation takes &mut self, so one operation is one atomic  *)
(* step.  Each step records the call that was made (last), what it         *)
(* returned (result) and the external effects it issued, in order          *)
(* (effects): writes of the index file and restore / activate / minimize   *)
(* calls on the WindowManager.                                             *)
(***************************************************************************)
EXTENDS Integers, Sequences, FiniteSets

VARIABLES
    windows,        \* CycleState.windows: sequence of EveWindow [id, title]
    current_index,  \* CycleState.current_index (0-based, usize)
    index_file,     \* content of INDEX_FILE: Missing, or a sequence of characters
    last,           \* the call made by the last step: [op, target, minimize, order, arg]
    result,         \* what the last call returned
    effects,        \* file writes and backend calls issued by the last call, in order
    pre,            \* current_index and windows.len() as the last call found them
    changed,        \* which of windows, current_index, index_file the last call changed
    run,            \* the cycle calls made since the last non-cycle call: [op, pre]
    activated,      \* None, or Some(the ids activate_window has succeeded on so far)
    chosen,         \* None, or Some([index, mirrored]): whether the write of the
                    \* latest cycle or index-changing switch succeeded, and if so
                    \* the index it chose (0 if not)
    last_index,     \* OverlayApp.last_index
    reply,          \* what the last call of a backend returned: None for Err, Some(v)
    tasks           \* the engine's Mutex and the places of the tasks that share it:
                    \* [lock, cmd, overlay]

vars == <<windows, current_index, index_file, last, result, effects, pre, changed, run,
          activated, chosen, last_index, reply, tasks>>

----------------------------------------------------------------------------
(* Bounds of the model *)

\* longest window list a poll delivers; also the longest remembered run of cycles
MaxLen == 2
\* longest character order handed to switch_to
MaxOrder == 2
\* most calls (file write, restore, activate, minimize) that fail in one operation
MaxFaults == 1

\* window ids: opaque u32 handles that are only ever compared for equality, so
\* two of them tell "same id" from "another id"; 0 is never a listed window's id
Ids == {1, 2}
Titles == {"Alpha", "Beta"}

\* EveWindow { id: u32, title: String }
EveWindow == [id : Ids, title : Titles]

SeqsUpTo(S, n) == UNION {[1..k -> S] : k \in 0..n}

Distinct(s) == \A i, j \in 1..Len(s) : i # j => s[i] # s[j]

\* the lists get_eve_windows can hand to update_windows: no record twice, but
\* two records may share an id or a title
WindowLists == {l \in SeqsUpTo(EveWindow, MaxLen) : Distinct(l)}

\* Option<&[String]>: None is <<>>, Some(order) is <<order>>
None == <<>>
Some(x) == <<x>>
\* a character order names each character once
CharacterOrders ==
    {None} \cup {Some(o) : o \in {c \in SeqsUpTo(Titles, MaxOrder) : Distinct(c)}}

\* usize arguments tried for switch_to's target and set_current_index
Targets == 0..(MaxLen + 1)
Indexes == 0..MaxLen
\* u32 arguments tried for sync_with_active: every listed id, and 0
ActiveIds == Ids \cup {0}

\* the Mutex free, the user-command task between two commands (none of its
\* backend calls hung, no minimize owed), the overlay at the start of a frame
\* (no polled list waiting for the Mutex held by a command), no fs::write to
\* the index file under way
Idle ==
    [lock |-> "free", cmd |-> "idle", overlay |-> "read",
     minimize |-> FALSE, hung |-> FALSE, waited |-> FALSE, writing |-> None]

----------------------------------------------------------------------------
(* The index file *)

Missing == <<"missing">>

DigitChars == <<"0", "1", "2", "3", "4", "5", "6", "7", "8", "9">>

\* usize::to_string: the decimal digits, most significant first
RECURSIVE to_string(_)
to_string(n) ==
    IF n < 10 THEN <<DigitChars[n + 1]>>
    ELSE to_string(n \div 10) \o <<DigitChars[(n % 10) + 1]>>

\* what a previous process may have left at INDEX_FILE
StaleFiles == {Missing, to_string(1)}

\* a file that exists and that fs::read_to_string fails on (not UTF-8, no
\* permission)
Unreadable == <<"unreadable">>

\* char::is_whitespace, as far as the contents below go
Whitespace == {" ", "\n"}

\* what read_index_from_file may find at INDEX_FILE: the file missing or
\* unreadable, an index as write_index writes it, the same with a newline or a
\* sign around it, a truncated write, and text that is no number
FileContents ==
    {Missing, Unreadable, <<>>, <<"\n">>, <<"x">>, <<"+">>,
     <<"-", "1">>, <<"1", "x">>, <<"1", " ", "1">>,
     <<"+", "1">>, <<" ", "1", "\n">>, <<"0", "1">>}
    \cup {to_string(i) : i \in 0..MaxLen}

\* str::trim: leading and trailing whitespace removed
RECURSIVE trim_start(_)
trim_start(s) ==
    IF s # <<>> /\ s[1] \in Whitespace THEN trim_start(Tail(s)) ELSE s

RECURSIVE trim_end(_)
trim_end(s) ==
    IF s # <<>> /\ s[Len(s)] \in Whitespace
    THEN trim_end(SubSeq(s, 1, Len(s) - 1)) ELSE s

trim(s) == trim_end(trim_start(s))

\* the value of the digits of s after acc, -1 at the first character that is
\* no digit (the contents here stay far below usize::MAX)
RECURSIVE from_digits(_, _)
from_digits(s, acc) ==
    IF s = <<>> THEN acc
    ELSE IF \E d \in 0..9 : DigitChars[d + 1] = s[1]
         THEN from_digits(Tail(s),
                          acc * 10 + (CHOOSE d \in 0..9 : DigitChars[d + 1] = s[1]))
         ELSE -1

\* str::parse::<usize>().ok(): an optional "+", then one or more digits
parse(s) ==
    LET digits == IF s # <<>> /\ s[1] = "+" THEN Tail(s) ELSE s
    IN  IF digits = <<>> \/ from_digits(digits, 0) < 0 THEN None
        ELSE Some(from_digits(digits, 0))

\* a plausible slip: unwrap_or_default() where the Option was to be kept
read_index_from_file_OrDefault(file) ==
    IF file = Missing THEN None
    ELSE IF file = Unreadable \/ parse(trim(file)) = None THEN Some(0)
    ELSE parse(trim(file))

\* CycleState::read_index_from_file
read_index_from_file(file) ==
    IF file = Missing THEN None
    ELSE IF file = Unreadable THEN None
    ELSE parse(trim(file))

\* fs::write(INDEX_FILE, ..) creates or truncates the file, then writes:
\* it succeeds, fails to open (file untouched) or fails after truncating
WriteOutcomes == {"ok", "denied", "truncated"}

\* a plausible slip: the file opened for appending instead of fs::write
FileAfterWrite_Appends(file, value, outcome) ==
    IF outcome = "ok"
    THEN (IF file = Missing THEN <<>> ELSE file) \o to_string(value)
    ELSE IF outcome = "denied" THEN file ELSE <<>>

FileAfterWrite(file, value, outcome) ==
    CASE outcome = "ok" -> to_string(value)
      [] outcome = "denied" -> file
      [] outcome = "truncated" -> <<>>

----------------------------------------------------------------------------
(* Pure parts of the operations *)

\* plausible slips in the clamp: none at all; to the last index instead of 0; a
\* reset on every nonempty list
ClampIndex_Never(index, list) == index

ClampIndex_ToLast(index, list) ==
    IF index >= Len(list) /\ list # <<>> THEN Len(list) - 1 ELSE index

ClampIndex_AlwaysReset(index, list) ==
    IF list # <<>> THEN 0 ELSE index

\* a plausible slip: the comparison off by one, the last valid index reset too
ClampIndex_Strict(index, list) ==
    IF index + 1 >= Len(list) /\ list # <<>> THEN 0 ELSE index

\* update_windows: "Clamp current index"
ClampIndex(index, list) ==
    IF index >= Len(list) /\ list # <<>> THEN 0 ELSE index

\* a plausible slip: stopping at the last index instead of wrapping
ForwardIndex_Saturating(index, n) ==
    IF index + 1 >= n THEN index ELSE index + 1

\* cycle_forward: (current_index + 1) % windows.len()
ForwardIndex(index, n) == (index + 1) % n

\* a plausible slip: a saturating decrement instead of the wrap
BackwardIndex_NoWrap(index, n) == IF index = 0 THEN 0 ELSE index - 1

\* cycle_backward: wrap from 0 to len - 1, else decrement
BackwardIndex(index, n) == IF index = 0 THEN n - 1 ELSE index - 1

\* set_current_index: accepted when in range, or when the list is empty
SetIndex(index, new, list) ==
    IF new < Len(list) \/ list = <<>> THEN new ELSE index

\* a plausible slip: the loop without its break ends on the last match
PositionOfId_Last(list, id) ==
    IF \E k \in 1..Len(list) : list[k].id = id
    THEN (CHOOSE k \in 1..Len(list) :
            /\ list[k].id = id
            /\ \A j \in (k + 1)..Len(list) : list[j].id # id) - 1
    ELSE -1

\* windows.iter().position(|w| w.id == id), 0-based; -1 when there is none
PositionOfId(list, id) ==
    IF \E k \in 1..Len(list) : list[k].id = id
    THEN (CHOOSE k \in 1..Len(list) :
            /\ list[k].id = id
            /\ \A j \in 1..(k - 1) : list[j].id # id) - 1
    ELSE -1

\* sync_with_active: the first window with the id, else the index as it was
SyncIndex(index, list, id) ==
    IF PositionOfId(list, id) >= 0 THEN PositionOfId(list, id) ELSE index

\* a plausible slip: rposition, the last window with the title
PositionOfTitle_Last(list, name) ==
    IF \E k \in 1..Len(list) : list[k].title = name
    THEN (CHOOSE k \in 1..Len(list) :
            /\ list[k].title = name
            /\ \A j \in (k + 1)..Len(list) : list[j].title # name) - 1
    ELSE -1

\* windows.iter().position(|w| w.title == name), 0-based; -1 when there is none
PositionOfTitle(list, name) ==
    IF \E k \in 1..Len(list) : list[k].title = name
    THEN (CHOOSE k \in 1..Len(list) :
            /\ list[k].title = name
            /\ \A j \in 1..(k - 1) : list[j].title # name) - 1
    ELSE -1

\* a slip: the 1-based position in the list handed over as the window's id
IdAt_Position(list, i) == i + 1

\* windows[i].id for a 0-based i
IdAt(list, i) == list[i + 1].id

\* a plausible slip: without a character order, a target past the list wraps
Resolve_Wraps(list, target, order) ==
    IF order # None
    THEN LET characters == order[1]
             target_idx == target - 1
         IN  IF target_idx >= Len(characters)
             THEN [err |-> "OutOfRange", index |-> 0]
             ELSE IF PositionOfTitle(list, characters[target_idx + 1]) < 0
                  THEN [err |-> "NotFound", index |-> 0]
                  ELSE [err |-> "Ok",
                        index |-> PositionOfTitle(list, characters[target_idx + 1])]
    ELSE [err |-> "Ok", index |-> (target - 1) % Len(list)]

\* a plausible slip: a character that is not logged in falls back to list order
Resolve_FallsBack(list, target, order) ==
    LET target_idx == target - 1
        byList == IF target_idx >= Len(list)
                  THEN [err |-> "OutOfRange", index |-> 0]
                  ELSE [err |-> "Ok", index |-> target_idx]
    IN  IF order # None
        THEN LET characters == order[1]
             IN  IF target_idx >= Len(characters)
                 THEN [err |-> "OutOfRange", index |-> 0]
                 ELSE IF PositionOfTitle(list, characters[target_idx + 1]) < 0
                      THEN byList
                      ELSE [err |-> "Ok",
                            index |-> PositionOfTitle(list, characters[target_idx + 1])]
        ELSE byList

\* switch_to's resolution of target: [err |-> .., index |-> ..]
Resolve(list, target, order) ==
    IF order # None
    THEN LET characters == order[1]
             target_idx == target - 1
         IN  IF target_idx >= Len(characters)
             THEN [err |-> "OutOfRange", index |-> 0]
             ELSE IF PositionOfTitle(list, characters[target_idx + 1]) < 0
                  THEN [err |-> "NotFound", index |-> 0]
                  ELSE [err |-> "Ok",
                        index |-> PositionOfTitle(list, characters[target_idx + 1])]
    ELSE LET target_idx == target - 1
         IN  IF target_idx >= Len(list)
             THEN [err |-> "OutOfRange", index |-> 0]
             ELSE [err |-> "Ok", index |-> target_idx]

----------------------------------------------------------------------------
(* The backends: titles, ids and the listings they are read from *)

\* A title is a sequence of pieces of text: the fixed prefix, the excluded
\* word, and letters that are part of neither.
Prefix == "EVE - "
Excluded == "Launcher"

\* the titles a listed window may carry
RawTitles ==
    {<<>>, <<"A">>, <<Prefix>>, <<Prefix, "A">>, <<Prefix, "B">>,
     <<Prefix, Excluded>>, <<Prefix, "A", Excluded>>, <<Prefix, Prefix, "A">>}

\* str::starts_with, str::contains and str::trim_start_matches, which removes
\* the pattern as often as the text starts with it
starts_with(text, piece) == text # <<>> /\ text[1] = piece

contains(text, piece) == \E k \in 1..Len(text) : text[k] = piece

RECURSIVE trim_start_matches(_, _)
trim_start_matches(text, piece) ==
    IF starts_with(text, piece) THEN trim_start_matches(Tail(text), piece)
    ELSE text

\* the filter of every get_eve_windows and the record it pushes
IsEveTitle(title) == starts_with(title, Prefix) /\ ~contains(title, Excluded)

EveRecord(id, title) == [id |-> id, title |-> trim_start_matches(title, Prefix)]

\* Option::unwrap_or
unwrap_or(option, default) == IF option = None THEN default ELSE option[1]

\* the digits of the radixes up to 16, in the order of their values
HexChars == DigitChars \o <<"a", "b", "c", "d", "e", "f">>

\* char::to_digit(radix): 0-based value of the character, -1 when it is no
\* digit of the radix
to_digit(char, radix) ==
    IF \E d \in 1..radix : HexChars[d] = char
    THEN (CHOOSE d \in 1..radix : HexChars[d] = char) - 1
    ELSE -1

\* the value of a text of digits, read from the left after acc
RECURSIVE digits_value(_, _, _)
digits_value(text, radix, acc) ==
    IF text = <<>> THEN acc
    ELSE digits_value(Tail(text), radix, acc * radix + to_digit(text[1], radix))

\* leading zeros removed
RECURSIVE significant(_)
significant(text) ==
    IF text # <<>> /\ text[1] = "0" THEN significant(Tail(text)) ELSE text

\* u32::from_str_radix(text, radix).ok(): Err on an empty text, on a character
\* that is no digit of the radix and on a number of more than 32 bits (in
\* radix 16, one with more than 8 significant digits)
from_str_radix(text, radix) ==
    IF text = <<>> THEN None
    ELSE IF \E k \in 1..Len(text) : to_digit(text[k], radix) < 0 THEN None
    ELSE IF radix = 16 /\ Len(significant(text)) > 8 THEN None
    ELSE Some(digits_value(text, radix, 0))

\* the id texts of the listings: a text that may start with "0x", then the
\* digits; the last one is a 48-bit address
IdTexts ==
    {<<"0x", "1">>, <<"0x", "0", "2">>, <<"3">>, <<"0x", "g">>,
     <<"0x", "5", "5", "d", "4", "c", "8", "a", "2", "b", "3", "f", "0">>}

\* KWin: hex with strip_prefix("0x"), decimal otherwise, 0 when neither parses
KWinId(id_str) ==
    IF starts_with(id_str, "0x")
    THEN unwrap_or(from_str_radix(Tail(id_str), 16), 0)
    ELSE unwrap_or(from_str_radix(id_str, 10), 0)

\* Hyprland: hex with strip_prefix("0x"), 0 otherwise
HyprlandId(address) ==
    IF starts_with(address, "0x")
    THEN unwrap_or(from_str_radix(Tail(address), 16), 0)
    ELSE 0

\* format!("{:x}", n): lower-case hex digits without leading zeros
RECURSIVE to_hex(_)
to_hex(n) ==
    IF n < 16 THEN <<HexChars[n + 1]>>
    ELSE to_hex(n \div 16) \o <<HexChars[(n % 16) + 1]>>

\* Hyprland: the address activate, minimize, restore and stack put in their
\* commands, format!("0x{:x}", window_id)
HyprlandAddress(window_id) == <<"0x">> \o to_hex(window_id)

\* the backends
Backends == {"X11", "KWin", "Sway", "Hyprland"}

\* a JSON field that is not there, and one that is null
Absent == <<"absent">>
Null == <<"null">>

\* X11: _NET_CLIENT_LIST with, for each window, what get_window_title returns
\* (None for Err)
X11Clients ==
    [id : {1, 2}, title : {None} \cup {Some(t) : t \in RawTitles}]

\* KWin: the lines of wmctrl -l that have four parts or more, as (id, title)
KWinLines == [id : IdTexts, title : RawTitles \ {<<>>}]

\* Hyprland: the objects of hyprctl clients -j
HyprlandClients ==
    [address : IdTexts \cup {Absent}, title : RawTitles \cup {Null}]

\* what the listing command of a backend gives: None when it fails, Some(the
\* listed windows in order) otherwise
ListingsOf(raw) == {None} \cup {Some(l) : l \in SeqsUpTo(raw, MaxLen)}

\* the records pushed for the windows of a listing, in order
RECURSIVE X11Records(_)
X11Records(clients) ==
    IF clients = <<>> THEN <<>>
    ELSE LET window == clients[1]
         IN  (IF window.title # None /\ IsEveTitle(window.title[1])
              THEN <<EveRecord(window.id, window.title[1])>> ELSE <<>>)
             \o X11Records(Tail(clients))

RECURSIVE KWinRecords(_)
KWinRecords(lines) ==
    IF lines = <<>> THEN <<>>
    ELSE LET line == lines[1]
         IN  (IF IsEveTitle(line.title) /\ KWinId(line.id) # 0
              THEN <<EveRecord(KWinId(line.id), line.title)>> ELSE <<>>)
             \o KWinRecords(Tail(lines))

RECURSIVE HyprlandRecords(_)
HyprlandRecords(clients) ==
    IF clients = <<>> THEN <<>>
    ELSE LET window == clients[1]
         IN  (IF window.title # Null /\ IsEveTitle(window.title)
                 /\ window.address # Absent
              THEN <<EveRecord(HyprlandId(window.address), window.title)>>
              ELSE <<>>)
             \o HyprlandRecords(Tail(clients))

\* Sway: a node of the tree of swaymsg -t get_tree.  id is None when the
\* field is no number; nodes and floating_nodes are empty when the field is
\* no array
SwayNode(type, app_id, window_properties, name, id, focused, nodes, floating_nodes) ==
    [type |-> type, app_id |-> app_id, window_properties |-> window_properties,
     name |-> name, id |-> id, focused |-> focused,
     nodes |-> nodes, floating_nodes |-> floating_nodes]

\* the most children a node of the model has in each of its two arrays
MaxChildren == 2

\* nodes without children: a native Wayland window, an XWayland window (its
\* app_id is null, its window_properties are set), the launcher floating, and
\* an empty container
SwayNative ==
    SwayNode("con", <<"app">>, Absent, <<Prefix, "A">>, Some(1), FALSE, <<>>, <<>>)

SwayXWayland ==
    SwayNode("con", Null, <<"props">>, <<Prefix, "B">>, Some(2), TRUE, <<>>, <<>>)

SwayLauncher ==
    SwayNode("floating_con", <<"app">>, Absent, <<Prefix, Excluded>>, Some(3),
             FALSE, <<>>, <<>>)

SwayEmpty ==
    SwayNode("con", Null, Absent, Null, Some(4), FALSE, <<>>, <<>>)

\* further ones: a window node without the app_id field, a window of another
\* application, a window whose id is no number
SwayInner == {SwayNative, SwayXWayland, SwayLauncher, SwayEmpty}

SwayLeaves ==
    SwayInner \cup
    {SwayNode("con", Absent, <<"props">>, <<Prefix, "A">>, Some(5), FALSE,
              <<>>, <<>>),
     SwayNode("con", <<"app">>, Absent, <<"A">>, Some(6), TRUE, <<>>, <<>>),
     SwayNode("con", <<"app">>, Absent, <<Prefix, "B">>, None, FALSE, <<>>, <<>>)}

\* a split container, a workspace or a window, with at most one child in each
\* array
SwayMiddle ==
    {SwayNode(kind[1], kind[2], Absent, kind[3], Some(7), FALSE, nodes, floating) :
        kind \in {<<"con", Null, Null>>, <<"workspace", Absent, Null>>,
                  <<"con", <<"app">>, <<Prefix, "A">> >>},
        nodes \in SeqsUpTo(SwayInner, 1),
        floating \in SeqsUpTo(SwayInner, 1)}

\* the trees: a root over leaves and middle nodes
SwayTrees(width) ==
    {SwayNode("root", Absent, Absent, Null, Some(8), FALSE, nodes, floating) :
        nodes \in SeqsUpTo(SwayMiddle \cup SwayLeaves, width),
        floating \in SeqsUpTo({SwayNative, SwayXWayland}, 1)}

\* the test of SwayManager::extract_windows: the window_properties field is
\* looked at only when the node has no app_id field at all
IsSwayWindow(node) ==
    /\ node.type \in {"con", "floating_con"}
    /\ IF node.app_id # Absent
       THEN node.app_id # Null
       ELSE node.window_properties # Absent /\ node.window_properties # Null

\* SwayManager::extract_windows: the node itself, then its nodes, then its
\* floating_nodes
RECURSIVE extract_windows(_)
RECURSIVE extract_each(_)
extract_windows(node) ==
    (IF IsSwayWindow(node) THEN <<node>> ELSE <<>>)
    \o extract_each(node.nodes)
    \o extract_each(node.floating_nodes)

extract_each(children) ==
    IF children = <<>> THEN <<>>
    ELSE extract_windows(children[1]) \o extract_each(Tail(children))

RECURSIVE SwayRecords(_)
SwayRecords(found) ==
    IF found = <<>> THEN <<>>
    ELSE LET window == found[1]
         IN  (IF window.name # Null /\ IsEveTitle(window.name)
                 /\ window.id # None
              THEN <<EveRecord(window.id[1], window.name)>> ELSE <<>>)
             \o SwayRecords(Tail(found))

\* SwayManager::get_all_windows on what swaymsg gave: Err when it failed
Sway_all_windows(got) ==
    IF got = None THEN None ELSE Some(extract_windows(got[1]))

\* get_eve_windows of each backend on what its listing command gave (for
\* Sway the tree): Err when the command failed
get_eve_windows(backend, listing) ==
    IF listing = None THEN None
    ELSE Some(CASE backend = "X11" -> X11Records(listing[1])
                [] backend = "KWin" -> KWinRecords(listing[1])
                [] backend = "Hyprland" -> HyprlandRecords(listing[1])
                [] backend = "Sway" -> SwayRecords(Sway_all_windows(listing)[1]))

\* Ok(())
Unit == "()"

\* what running an external command gives: it could not be started, it exited
\* with a non-zero status, it exited with status 0
CommandOutcomes == {"spawn_error", "failed", "success"}

\* what the requests of X11Manager::activate_window give: the connection
\* refuses one of them, the server rejects one after it was sent (the error
\* arrives later, as an event), all are carried out
X11Outcomes == {"connection_error", "rejected", "done"}

\* what KWinManager::activate_window meets: whether wmctrl -l lists a title
\* for the id, and the outcomes of kdotool and of wmctrl -i -a
KWinActivations ==
    [title : BOOLEAN, kdotool : CommandOutcomes, wmctrl : CommandOutcomes]

\* activate_window of each backend on what its mechanism gave
activate_window(backend, got) ==
    CASE backend = "X11" ->
            IF got.outcome = "connection_error" THEN None ELSE Some(Unit)
      [] backend = "KWin" ->
            IF got.title /\ got.kdotool = "success" THEN Some(Unit)
            ELSE IF got.wmctrl = "spawn_error" THEN None
            ELSE Some(Unit)
      [] backend \in {"Sway", "Hyprland"} ->
            IF got = "success" THEN Some(Unit) ELSE None

\* what the property request of X11Manager::get_active_window gives: an
\* error, a value that is not in 32-bit format, or at most one window id
X11ActiveReplies ==
    {[reply |-> r, value |-> <<>>] : r \in {"error", "format"}}
    \cup {[reply |-> "value", value |-> v] : v \in SeqsUpTo(0..MaxLen, 1)}

\* what xdotool getactivewindow gives: no process, or its standard output
XdotoolOutputs ==
    {None} \cup {Some(out) : out \in {<<>>, <<"x">>, <<"1">>, <<"2", "\n">>,
                                        <<"1", "2", "\n">>}}

\* what hyprctl activewindow -j gives: no process, output that is not JSON,
\* or an object with or without an address
HyprlandActiveReplies ==
    {[output |-> o, address |-> Absent] : o \in {"spawn_error", "not_json"}}
    \cup {[output |-> "object", address |-> a] : a \in IdTexts \cup {Absent}}

\* SwayManager::get_active_window: the id of the first window found that is
\* focused and has an id
RECURSIVE first_focused(_)
first_focused(found) ==
    IF found = <<>> THEN None
    ELSE IF found[1].focused /\ found[1].id # None THEN Some(found[1].id[1])
    ELSE first_focused(Tail(found))

\* get_active_window of each backend on what its query gave
get_active_window(backend, got) ==
    CASE backend = "X11" ->
            IF got.reply # "value" THEN None
            ELSE Some(IF got.value = <<>> THEN 0 ELSE got.value[1])
      [] backend = "KWin" ->
            IF got = None THEN None ELSE parse(trim(got[1]))
      [] backend = "Sway" ->
            IF Sway_all_windows(got) = None THEN None
            ELSE first_focused(Sway_all_windows(got)[1])
      [] backend = "Hyprland" ->
            IF got.output # "object" \/ got.address = Absent THEN None
            ELSE Some(HyprlandId(got.address))

\* x11rb::CURRENT_TIME
CURRENT_TIME == 0

\* a slip: the input focus set before the client message is sent
X11Requests_FocusFirst == <<"set_input_focus", "send_event", "flush">>

\* the requests of X11Manager::activate_window, in the order they are made
X11Requests == <<"send_event", "set_input_focus", "flush">>

\* what X11Manager::activate_window meets: the window to focus, the answer
\* to its get_active_window, the outcome of its requests and, for a
\* connection error, the request that meets it
X11Activations ==
    {a \in [window_id : Ids, active : X11ActiveReplies, outcome : X11Outcomes,
            at : 1..Len(X11Requests)] :
        a.outcome # "connection_error" => a.at = 1}

----------------------------------------------------------------------------
(* Records of a step *)

Call(op, target, minimize, order, arg) ==
    [op |-> op, target |-> target, minimize |-> minimize, order |-> order, arg |-> arg]

Effect(op, arg, ok) == [op |-> op, arg |-> arg, ok |-> ok]

\* what the environment does to the calls of one operation: the outcome of the
\* file write, and whether restore, activate and minimize succeed
Outcomes == [w : WriteOutcomes, r : BOOLEAN, a : BOOLEAN, m : BOOLEAN]

\* the outcomes that differ in a call the operation makes (restore only under
\* minimize_inactive, minimize only after a successful activate)
Faults(o) ==
    (IF o.w = "ok" THEN 0 ELSE 1) + (IF o.r THEN 0 ELSE 1)
    + (IF o.a THEN 0 ELSE 1) + (IF o.m THEN 0 ELSE 1)

OutcomesFor(minimize, minimizes) ==
    {o \in Outcomes : /\ (~minimize => o.r)
                      /\ (~(minimizes /\ o.a) => o.m)
                      /\ Faults(o) <= MaxFaults}

\* what a step records besides its result and effects: the call, the index and
\* the list length it found, and the parts of the state it changed
Changed ==
    (IF windows' # windows THEN {"windows"} ELSE {})
    \cup (IF current_index' # current_index THEN {"current_index"} ELSE {})
    \cup (IF index_file' # index_file THEN {"index_file"} ELSE {})
    \cup (IF last_index' # last_index THEN {"last_index"} ELSE {})

\* the ids on which the step's activate_window calls returned Ok
NewlyActivated ==
    {effects'[k].arg : k \in {j \in 1..Len(effects') :
                                 effects'[j].op = "activate" /\ effects'[j].ok}}

\* the step is a cycle on a nonempty list or a switch that changes the index:
\* the operations that set current_index and call write_index
ChoosesIndex(call) ==
    \/ call.op \in {"cycle_forward", "cycle_backward"} /\ windows # <<>>
    \/ call.op = "switch_to" /\ current_index' # current_index

\* the step's fs::write calls all returned Ok
WritesSucceeded ==
    \A k \in 1..Len(effects') : effects'[k].op = "write" => effects'[k].ok

\* what a step leaves for the properties to read; the records of activations
\* and of the chosen index are kept only by the specifications that start them
Record(call) ==
    /\ last' = call
    /\ pre' = [index |-> current_index, len |-> Len(windows)]
    /\ changed' = Changed
    /\ activated' = IF activated = None THEN None
                    ELSE Some(activated[1] \cup NewlyActivated)
    /\ chosen' = IF chosen = None \/ ~ChoosesIndex(call) THEN chosen
                 ELSE Some([index |-> IF WritesSucceeded THEN current_index' ELSE 0,
                            mirrored |-> WritesSucceeded])

\* a step of the engine, which knows nothing of the overlay's fields
Observe(call) ==
    /\ UNCHANGED <<last_index, reply, tasks>>
    /\ Record(call)

\* the run of cycle calls on the present list: the latest cycle_forward calls
\* (at most MaxLen of them), then at most one cycle_backward
Extend(r, op, index) ==
    LET e == [op |-> op, pre |-> index]
    IN  IF op = "cycle_forward"
        THEN IF r # <<>> /\ r[Len(r)].op = "cycle_backward" THEN <<e>>
             ELSE IF Len(r) < MaxLen THEN Append(r, e) ELSE Append(Tail(r), e)
        ELSE IF r # <<>> /\ r[Len(r)].op = "cycle_forward"
             THEN <<r[Len(r)], e>> ELSE <<>>

\* a plausible slip: minimize without the previous_index != current_index test
CycleEffects_AlwaysMinimize(list, previous_index, new_index, minimize, o) ==
    <<Effect("write", new_index, o.w = "ok")>>
    \o (IF minimize
        THEN <<Effect("restore", IdAt(list, new_index), o.r)>> ELSE <<>>)
    \o <<Effect("activate", IdAt(list, new_index), o.a)>>
    \o (IF o.a /\ minimize
        THEN <<Effect("minimize", IdAt(list, previous_index), o.m)>> ELSE <<>>)

\* plausible slips: the previous window minimized before the new one is
\* activated; write_index() called before the index is updated
CycleEffects_MinimizeFirst(list, previous_index, new_index, minimize, o) ==
    <<Effect("write", new_index, o.w = "ok")>>
    \o (IF minimize
        THEN <<Effect("restore", IdAt(list, new_index), o.r)>> ELSE <<>>)
    \o (IF o.a /\ minimize /\ previous_index # new_index
        THEN <<Effect("minimize", IdAt(list, previous_index), o.m)>> ELSE <<>>)
    \o <<Effect("activate", IdAt(list, new_index), o.a)>>

CycleEffects_WritesPrevious(list, previous_index, new_index, minimize, o) ==
    <<Effect("write", previous_index, o.w = "ok")>>
    \o (IF minimize
        THEN <<Effect("restore", IdAt(list, new_index), o.r)>> ELSE <<>>)
    \o <<Effect("activate", IdAt(list, new_index), o.a)>>
    \o (IF o.a /\ minimize /\ previous_index # new_index
        THEN <<Effect("minimize", IdAt(list, previous_index), o.m)>> ELSE <<>>)

\* the write / restore / activate / minimize sequence of cycle_forward and
\* cycle_backward, from the index they chose
CycleEffects(list, previous_index, new_index, minimize, o) ==
    <<Effect("write", new_index, o.w = "ok")>>
    \o (IF minimize
        THEN <<Effect("restore", IdAt(list, new_index), o.r)>> ELSE <<>>)
    \o <<Effect("activate", IdAt(list, new_index), o.a)>>
    \o (IF o.a /\ minimize /\ previous_index # new_index
        THEN <<Effect("minimize", IdAt(list, previous_index), o.m)>> ELSE <<>>)

\* plausible slips: the new window minimized instead of the previous one; a
\* failed restore returned with ? instead of being dropped
SwitchEffects_MinimizesTarget(list, previous_index, new_index, minimize, o) ==
    <<Effect("write", new_index, o.w = "ok")>>
    \o (IF minimize
        THEN <<Effect("restore", IdAt(list, new_index), o.r)>> ELSE <<>>)
    \o <<Effect("activate", IdAt(list, new_index), o.a)>>
    \o (IF o.a /\ minimize
        THEN <<Effect("minimize", IdAt(list, new_index), o.m)>> ELSE <<>>)

SwitchEffects_RestoreAborts(list, previous_index, new_index, minimize, o) ==
    <<Effect("write", new_index, o.w = "ok")>>
    \o (IF minimize
        THEN <<Effect("restore", IdAt(list, new_index), o.r)>> ELSE <<>>)
    \o (IF minimize /\ ~o.r THEN <<>>
        ELSE <<Effect("activate", IdAt(list, new_index), o.a)>>
             \o (IF o.a /\ minimize
                 THEN <<Effect("minimize", IdAt(list, previous_index), o.m)>>
                 ELSE <<>>))

\* the same sequence in switch_to, which minimizes whenever minimize_inactive
SwitchEffects(list, previous_index, new_index, minimize, o) ==
    <<Effect("write", new_index, o.w = "ok")>>
    \o (IF minimize
        THEN <<Effect("restore", IdAt(list, new_index), o.r)>> ELSE <<>>)
    \o <<Effect("activate", IdAt(list, new_index), o.a)>>
    \o (IF o.a /\ minimize
        THEN <<Effect("minimize", IdAt(list, previous_index), o.m)>> ELSE <<>>)

----------------------------------------------------------------------------
(* The state machine *)

\* CycleState::new(), with whatever an earlier process left in the index file
Init ==
    /\ windows = <<>>
    /\ current_index = 0
    /\ index_file \in StaleFiles
    /\ last = Call("new", 0, FALSE, None, 0)
    /\ result = "Ok"
    /\ effects = <<>>
    /\ pre = [index |-> 0, len |-> 0]
    /\ changed = {}
    /\ run = <<>>
    /\ activated = None
    /\ chosen = None
    /\ last_index = 0
    /\ reply = None
    /\ tasks = Idle

update_windows(list) ==
    /\ windows' = list
    /\ current_index' = ClampIndex(current_index, list)
    /\ result' = "Ok"
    /\ effects' = <<>>
    /\ run' = <<>>
    /\ UNCHANGED index_file
    /\ Observe(Call("update_windows", 0, FALSE, None, list))

\* a plausible slip: the index is persisted before the emptiness check
CycleNoop_WritesFirst ==
    /\ result' = "Ok"
    /\ index_file' = to_string(current_index)
    /\ effects' = <<Effect("write", current_index, TRUE)>>
    /\ run' = <<>>
    /\ UNCHANGED <<windows, current_index>>

\* cycle_forward / cycle_backward: if self.windows.is_empty() { return Ok(()) }
CycleNoop ==
    /\ result' = "Ok"
    /\ effects' = <<>>
    /\ run' = <<>>
    /\ UNCHANGED <<windows, current_index, index_file>>

\* the part cycle_forward and cycle_backward share once the new index is
\* computed: store it, write_index(), restore / activate / minimize
CycleTo(op, new_index, minimize) ==
    \E o \in OutcomesFor(minimize, minimize /\ current_index # new_index) :
        /\ current_index' = new_index
        /\ index_file' = FileAfterWrite(index_file, new_index, o.w)
        /\ effects' = CycleEffects(windows, current_index, new_index, minimize, o)
        /\ result' = IF o.a THEN "Ok" ELSE "ActivateFailed"
        /\ run' = Extend(run, op, current_index)
        /\ UNCHANGED windows

cycle_forward(minimize) ==
    /\ IF windows = <<>>
       THEN CycleNoop
       ELSE CycleTo("cycle_forward",
                    ForwardIndex(current_index, Len(windows)), minimize)
    /\ Observe(Call("cycle_forward", 0, minimize, None, 0))

cycle_backward(minimize) ==
    /\ IF windows = <<>>
       THEN CycleNoop
       ELSE CycleTo("cycle_backward",
                    BackwardIndex(current_index, Len(windows)), minimize)
    /\ Observe(Call("cycle_backward", 0, minimize, None, 0))

set_current_index(index) ==
    /\ current_index' = SetIndex(current_index, index, windows)
    /\ result' = "Ok"
    /\ effects' = <<>>
    /\ run' = <<>>
    /\ UNCHANGED <<windows, index_file>>
    /\ Observe(Call("set_current_index", 0, FALSE, None, index))

sync_with_active(active_window) ==
    /\ current_index' = SyncIndex(current_index, windows, active_window)
    /\ result' = "Ok"
    /\ effects' = <<>>
    /\ run' = <<>>
    /\ UNCHANGED <<windows, index_file>>
    /\ Observe(Call("sync_with_active", 0, FALSE, None, active_window))

\* a plausible slip: the emptiness test left out
SwitchIsNoop_TargetOnly(list, target) == target = 0

\* switch_to: if self.windows.is_empty() || target == 0 { return Ok(()) }
SwitchIsNoop(list, target) == list = <<>> \/ target = 0

\* a plausible slip: the test left out
AlreadyOnTarget_Never(target_index, index) == FALSE

\* switch_to: "Don't do anything if already on target"
AlreadyOnTarget(target_index, index) == target_index = index

switch_to(target, minimize, order) ==
    /\ run' = <<>>
    /\ UNCHANGED windows
    /\ IF SwitchIsNoop(windows, target)
       THEN /\ result' = "Ok"
            /\ effects' = <<>>
            /\ UNCHANGED <<current_index, index_file>>
       ELSE LET r == Resolve(windows, target, order)
            IN  IF r.err # "Ok"
                THEN /\ result' = r.err
                     /\ effects' = <<>>
                     /\ UNCHANGED <<current_index, index_file>>
                ELSE IF AlreadyOnTarget(r.index, current_index)
                THEN /\ result' = "Ok"
                     /\ effects' = <<>>
                     /\ UNCHANGED <<current_index, index_file>>
                ELSE \E o \in OutcomesFor(minimize, minimize) :
                     /\ current_index' = r.index
                     /\ index_file' = FileAfterWrite(index_file, r.index, o.w)
                     /\ effects' = SwitchEffects(windows, current_index, r.index,
                                                 minimize, o)
                     /\ result' = IF o.a THEN "Ok" ELSE "ActivateFailed"
    /\ Observe(Call("switch_to", target, minimize, order, 0))

Next ==
    \/ \E list \in WindowLists : update_windows(list)
    \/ \E minimize \in BOOLEAN : cycle_forward(minimize)
    \/ \E minimize \in BOOLEAN : cycle_backward(minimize)
    \/ \E index \in Indexes : set_current_index(index)
    \/ \E active_window \in ActiveIds : sync_with_active(active_window)
    \/ \E target \in Targets, order \in CharacterOrders, minimize \in BOOLEAN :
          switch_to(target, minimize, order)

\* OverlayApp::update, as far as the engine goes: the index is read from the
\* file and adopted when it differs from last_index; then, when 500 ms have
\* passed (due), the window list is fetched (got: None for Err) and handed to
\* update_windows
overlay_update(due, got) ==
    LET read == read_index_from_file(index_file)
        fresh == read # None /\ read[1] # last_index
        index == IF fresh THEN SetIndex(current_index, read[1], windows)
                 ELSE current_index
        synced == due /\ got # None
    IN  /\ last_index' = (IF fresh THEN read[1] ELSE last_index)
        /\ windows' = (IF synced THEN got[1] ELSE windows)
        /\ current_index' = (IF synced THEN ClampIndex(index, got[1]) ELSE index)
        /\ result' = "Ok"
        /\ effects' =
              <<Effect("read", IF read = None THEN 0 ELSE read[1], read # None)>>
              \o (IF fresh THEN <<Effect("set_current_index", read[1], TRUE)>>
                  ELSE <<>>)
              \o (IF due THEN <<Effect("get_eve_windows", 0, got # None)>> ELSE <<>>)
              \o (IF synced THEN <<Effect("update_windows", Len(got[1]), TRUE)>>
                  ELSE <<>>)
        /\ run' = <<>>
        /\ UNCHANGED <<index_file, reply, tasks>>
        /\ Record(Call("overlay_update", 0, due, None, 0))

\* the file at INDEX_FILE changes under the overlay: the cycling process
\* writes an index, a write is cut short, the file is removed or replaced
mirror_changes(content) ==
    /\ content # index_file
    /\ index_file' = content
    /\ result' = "Ok"
    /\ effects' = <<>>
    /\ run' = <<>>
    /\ UNCHANGED <<windows, current_index>>
    /\ Observe(Call("mirror_changes", 0, FALSE, None, 0))

Spec == Init /\ [][Next]_vars

\* the overlay process: its frames and the file changing between them
NextOverlay ==
    \/ overlay_update(FALSE, None)
    \/ \E got \in {None} \cup {Some(list) : list \in WindowLists} :
          overlay_update(TRUE, got)
    \/ \E content \in FileContents : mirror_changes(content)

SpecOverlay == Init /\ [][NextOverlay]_vars

\* the overlay process of a run in which no cycle or switch has been made yet:
\* INDEX_FILE holds what the previous process left
NextStale ==
    \/ overlay_update(FALSE, None)
    \/ \E got \in {None} \cup {Some(list) : list \in WindowLists} :
          overlay_update(TRUE, got)

SpecStale == Init /\ [][NextStale]_vars

\* the engine as Init leaves it, keeping the record of the ids activated
InitActivated ==
    /\ windows = <<>>
    /\ current_index = 0
    /\ index_file \in StaleFiles
    /\ last = Call("new", 0, FALSE, None, 0)
    /\ result = "Ok"
    /\ effects = <<>>
    /\ pre = [index |-> 0, len |-> 0]
    /\ changed = {}
    /\ run = <<>>
    /\ activated = Some({})
    /\ chosen = None
    /\ last_index = 0
    /\ reply = None
    /\ tasks = Idle

SpecActivated == InitActivated /\ [][Next]_vars

\* the engine as Init leaves it, keeping the record of the index chosen:
\* CycleState::new starts at index 0 and writes nothing
InitChosen ==
    /\ windows = <<>>
    /\ current_index = 0
    /\ index_file \in StaleFiles
    /\ last = Call("new", 0, FALSE, None, 0)
    /\ result = "Ok"
    /\ effects = <<>>
    /\ pre = [index |-> 0, len |-> 0]
    /\ changed = {}
    /\ run = <<>>
    /\ activated = None
    /\ chosen = Some([index |-> 0, mirrored |-> FALSE])
    /\ last_index = 0
    /\ reply = None
    /\ tasks = Idle

SpecChosen == InitChosen /\ [][Next]_vars

\* the calls X11Manager::activate_window makes, each with what it carries and
\* whether it returned Ok; a connection error returns at once (?)
x11_activate_requests(got) ==
    LET current_active == unwrap_or(get_active_window("X11", got.active), 0)
        made == IF got.outcome = "connection_error" THEN got.at
                ELSE Len(X11Requests)
        carries(request) ==
            CASE request = "send_event" ->
                    [destination |-> "root", window |-> got.window_id,
                     data |-> <<2, CURRENT_TIME, current_active, 0, 0>>]
              [] request = "set_input_focus" ->
                    [focus |-> got.window_id, time |-> CURRENT_TIME]
              [] request = "flush" -> [all |-> TRUE]
    IN  <<Effect("get_active_window", [got |-> current_active],
                 get_active_window("X11", got.active) # None)>>
        \o [k \in 1..made |->
               Effect(X11Requests[k], carries(X11Requests[k]),
                      ~(got.outcome = "connection_error" /\ k = got.at))]

\* what the compositor holds of a window as far as stack_windows goes: whether
\* it floats, and whether its position and its size are those of the stack
WindowStates == [floating : BOOLEAN, position : BOOLEAN, size : BOOLEAN]

\* the windows of the desktop, by id
Desktops == [Ids -> WindowStates]

\* the lists handed to stack_windows
StackLists == {l \in WindowLists : \A k \in 1..Len(l) : l[k].title = "Alpha"}

\* the commands stack_windows of a shell backend runs for one window, in order
StackCommands(backend) ==
    CASE backend = "KWin" -> <<"wmctrl -e">>
      [] backend = "Sway" -> <<"floating enable", "move position", "resize set">>
      [] backend = "Hyprland" ->
            <<"togglefloating", "movewindowpixel", "resizewindowpixel">>

\* what a command does to the window it addresses
command_applied(command, w) ==
    CASE command = "wmctrl -e" -> [w EXCEPT !.position = TRUE, !.size = TRUE]
      [] command = "floating enable" -> [w EXCEPT !.floating = TRUE]
      [] command = "togglefloating" -> [w EXCEPT !.floating = ~w.floating]
      [] command \in {"move position", "movewindowpixel"} ->
            [w EXCEPT !.position = TRUE]
      [] command \in {"resize set", "resizewindowpixel"} ->
            [w EXCEPT !.size = TRUE]

\* the commands of a sequence applied in order to one window
RECURSIVE commands_applied(_, _)
commands_applied(commands, w) ==
    IF commands = <<>> THEN w
    ELSE commands_applied(Tail(commands), command_applied(commands[1], w))

\* stack_windows: for window in windows, the commands of the backend
RECURSIVE stack_windows(_, _, _)
stack_windows(backend, list, desktop) ==
    IF list = <<>> THEN desktop
    ELSE stack_windows(backend, Tail(list),
                       [desktop EXCEPT
                           ![list[1].id] =
                               commands_applied(StackCommands(backend), @)])

\* a call of a backend that is about to be made: the function, the backend
\* and what the backend's command or protocol request will give
Pending(op, backend, input) ==
    Call("pending", 0, FALSE, None, [op |-> op, backend |-> backend, input |-> input])

\* the calls of get_eve_windows, on every listing
PendingEnumeration(call) ==
    \/ \E l \in ListingsOf(X11Clients) : call = Pending("get_eve_windows", "X11", l)
    \/ \E l \in ListingsOf(KWinLines) : call = Pending("get_eve_windows", "KWin", l)
    \/ \E l \in ListingsOf(HyprlandClients) :
          call = Pending("get_eve_windows", "Hyprland", l)

\* the calls of activate_window, on every outcome of the mechanism
PendingActivation(call) ==
    \/ \E o \in X11Activations : call = Pending("activate_window", "X11", o)
    \/ \E o \in KWinActivations : call = Pending("activate_window", "KWin", o)
    \/ \E b \in {"Sway", "Hyprland"}, o \in CommandOutcomes :
          call = Pending("activate_window", b, o)

\* the calls of get_active_window, on every answer of the query
PendingActiveQuery(call) ==
    \/ \E r \in X11ActiveReplies : call = Pending("get_active_window", "X11", r)
    \/ \E o \in XdotoolOutputs : call = Pending("get_active_window", "KWin", o)
    \/ \E r \in HyprlandActiveReplies :
          call = Pending("get_active_window", "Hyprland", r)

\* the calls of SwayManager that start from swaymsg -t get_tree, on every
\* tree and on the failure of swaymsg
PendingTreeCall(call) ==
    \E op \in {"get_all_windows", "get_eve_windows", "get_active_window"} :
        \/ call = Pending(op, "Sway", None)
        \/ \E tree \in SwayTrees(MaxChildren) : call = Pending(op, "Sway", Some(tree))

\* the calls of stack_windows of the shell backends, on every list and desktop
PendingStack(call) ==
    \E b \in {"KWin", "Sway", "Hyprland"}, l \in StackLists, d \in Desktops :
        call = Pending("stack_windows", b, [windows |-> l, desktop |-> d])

\* a fresh engine and one backend call about to be made
InitBackends ==
    /\ windows = <<>>
    /\ current_index = 0
    /\ index_file = Missing
    /\ \/ PendingEnumeration(last)
       \/ PendingActivation(last)
       \/ PendingActiveQuery(last)
       \/ PendingTreeCall(last)
       \/ PendingStack(last)
    /\ result = "Ok"
    /\ effects = <<>>
    /\ pre = [index |-> 0, len |-> 0]
    /\ changed = {}
    /\ run = <<>>
    /\ activated = None
    /\ chosen = None
    /\ last_index = 0
    /\ reply = None
    /\ tasks = Idle

\* the pending call of a backend function is made: it touches nothing of the
\* engine
BackendCall(op, backend, output) ==
    /\ last.op = "pending"
    /\ last.arg.op = op
    /\ last.arg.backend = backend
    /\ reply' = output
    /\ UNCHANGED <<windows, current_index, index_file, result, effects, run,
                   last_index, tasks>>
    /\ Record(Call(op, 0, FALSE, None, last.arg))

\* WindowManager::get_eve_windows of each backend
X11_get_eve_windows ==
    BackendCall("get_eve_windows", "X11", get_eve_windows("X11", last.arg.input))

KWin_get_eve_windows ==
    BackendCall("get_eve_windows", "KWin", get_eve_windows("KWin", last.arg.input))

Sway_get_eve_windows ==
    BackendCall("get_eve_windows", "Sway", get_eve_windows("Sway", last.arg.input))

Hyprland_get_eve_windows ==
    BackendCall("get_eve_windows", "Hyprland",
                get_eve_windows("Hyprland", last.arg.input))

\* SwayManager::get_all_windows
Sway_get_all_windows ==
    BackendCall("get_all_windows", "Sway", Sway_all_windows(last.arg.input))

\* WindowManager::activate_window of each backend
X11_activate_window ==
    /\ last.op = "pending"
    /\ last.arg.op = "activate_window"
    /\ last.arg.backend = "X11"
    /\ reply' = activate_window("X11", last.arg.input)
    /\ effects' = x11_activate_requests(last.arg.input)
    /\ UNCHANGED <<windows, current_index, index_file, result, run, last_index, tasks>>
    /\ Record(Call("activate_window", 0, FALSE, None, last.arg))

KWin_activate_window ==
    BackendCall("activate_window", "KWin", activate_window("KWin", last.arg.input))

Sway_activate_window ==
    BackendCall("activate_window", "Sway", activate_window("Sway", last.arg.input))

Hyprland_activate_window ==
    BackendCall("activate_window", "Hyprland",
                activate_window("Hyprland", last.arg.input))

\* WindowManager::get_active_window of each backend
X11_get_active_window ==
    BackendCall("get_active_window", "X11",
                get_active_window("X11", last.arg.input))

KWin_get_active_window ==
    BackendCall("get_active_window", "KWin",
                get_active_window("KWin", last.arg.input))

Sway_get_active_window ==
    BackendCall("get_active_window", "Sway",
                get_active_window("Sway", last.arg.input))

Hyprland_get_active_window ==
    BackendCall("get_active_window", "Hyprland",
                get_active_window("Hyprland", last.arg.input))

\* WindowManager::stack_windows of a shell backend, called on the list for
\* the first time, or once more on the desktop the first call left; effects
\* keeps the desktop after each call
StackCall(backend) ==
    /\ \/ last.op = "pending" /\ last.arg.op = "stack_windows"
       \/ last.op = "stack_windows" /\ Len(effects) < 2
    /\ last.arg.backend = backend
    /\ LET before == IF last.op = "pending" THEN last.arg.input.desktop
                     ELSE effects[Len(effects)].arg
           after == stack_windows(backend, last.arg.input.windows, before)
       IN  /\ reply' = Some(Unit)
           /\ effects' = Append(effects, Effect("stack_windows", after, TRUE))
    /\ UNCHANGED <<windows, current_index, index_file, result, run, last_index, tasks>>
    /\ Record(Call("stack_windows", 0, FALSE, None, last.arg))

KWin_stack_windows == StackCall("KWin")

Sway_stack_windows == StackCall("Sway")

Hyprland_stack_windows == StackCall("Hyprland")

\* the calls of the backends
NextBackends ==
    \/ KWin_stack_windows
    \/ Sway_stack_windows
    \/ Hyprland_stack_windows
    \/ X11_activate_window
    \/ KWin_activate_window
    \/ Sway_activate_window
    \/ Hyprland_activate_window
    \/ X11_get_active_window
    \/ KWin_get_active_window
    \/ Sway_get_active_window
    \/ Hyprland_get_active_window
    \/ Sway_get_all_windows
    \/ X11_get_eve_windows
    \/ KWin_get_eve_windows
    \/ Sway_get_eve_windows
    \/ Hyprland_get_eve_windows

SpecBackends == InitBackends /\ [][NextBackends]_vars

\* the backends with a call of activate_window about to be made
InitActivateWindow ==
    /\ windows = <<>>
    /\ current_index = 0
    /\ index_file = Missing
    /\ PendingActivation(last)
    /\ result = "Ok"
    /\ effects = <<>>
    /\ pre = [index |-> 0, len |-> 0]
    /\ changed = {}
    /\ run = <<>>
    /\ activated = None
    /\ chosen = None
    /\ last_index = 0
    /\ reply = None
    /\ tasks = Idle

NextActivateWindow ==
    \/ X11_activate_window
    \/ KWin_activate_window
    \/ Sway_activate_window
    \/ Hyprland_activate_window

SpecActivateWindow == InitActivateWindow /\ [][NextActivateWindow]_vars

----------------------------------------------------------------------------
(* The tasks that share the engine: the overlay's frames and a task that     *)
(* runs the user's cycle commands, each operation split at the points where  *)
(* the other task can run                                                    *)

\* a slip: the engine used without waiting for the Mutex
lock_Unguarded(task) == TRUE

\* self.state.lock(): returns once no other task holds the Mutex
lock(task) == tasks.lock \in {"free", task}

\* a step of a task that leaves the engine alone
TaskStep(op, arg) ==
    /\ result' = "Ok"
    /\ run' = <<>>
    /\ UNCHANGED <<windows, current_index, index_file>>
    /\ Record(Call(op, 0, FALSE, None, arg))

\* the lists a poll finds in this part
PolledLists == {l \in WindowLists : \A k \in 1..Len(l) : l[k].id = k}

\* the command task takes the Mutex for one command
cmd_locks ==
    /\ tasks.cmd = "idle"
    /\ lock("cmd")
    /\ tasks' = [tasks EXCEPT !.lock = "cmd", !.cmd = "locked"]
    /\ effects' = <<>>
    /\ UNCHANGED <<last_index, reply>>
    /\ TaskStep("lock", 0)

\* cycle_forward up to its first backend call: the empty-list return, or the
\* new index stored and written
cmd_cycle_begins(minimize) ==
    /\ tasks.cmd = "locked"
    /\ IF windows = <<>>
       THEN /\ tasks' = [tasks EXCEPT !.cmd = "unlock"]
            /\ effects' = <<>>
            /\ UNCHANGED <<current_index, index_file>>
       ELSE LET new_index == ForwardIndex(current_index, Len(windows))
            IN  /\ current_index' = new_index
                /\ index_file' = FileAfterWrite(index_file, new_index, "ok")
                /\ effects' = <<Effect("write", new_index, TRUE)>>
                /\ tasks' = [tasks EXCEPT
                                !.cmd = IF minimize THEN "restore" ELSE "activate",
                                !.minimize = minimize /\ current_index # new_index]
    /\ result' = "Ok"
    /\ run' = <<>>
    /\ UNCHANGED <<windows, last_index, reply>>
    /\ Record(Call("cycle_forward", 0, minimize, None, 0))

\* the backend call the command is at returns: restore, then activate (whose
\* failure ends the command), then minimize when it is owed
cmd_call_returns(ok) ==
    /\ tasks.cmd \in {"restore", "activate", "minimize"}
    /\ ~tasks.hung
    /\ effects' =
          Append(effects,
                 Effect(tasks.cmd,
                        IdAt(windows,
                             IF tasks.cmd = "minimize"
                             THEN BackwardIndex(current_index, Len(windows))
                             ELSE current_index),
                        ok))
    /\ tasks' = [tasks EXCEPT
                    !.cmd = CASE tasks.cmd = "restore" -> "activate"
                              [] tasks.cmd = "activate" ->
                                    IF ok /\ tasks.minimize THEN "minimize"
                                    ELSE "unlock"
                              [] tasks.cmd = "minimize" -> "unlock"]
    /\ UNCHANGED <<last_index, reply>>
    /\ TaskStep(tasks.cmd, ok)

\* the external tool of the backend call the command is at never exits
cmd_call_hangs ==
    /\ tasks.cmd \in {"restore", "activate", "minimize"}
    /\ ~tasks.hung
    /\ tasks' = [tasks EXCEPT !.hung = TRUE]
    /\ UNCHANGED <<effects, last_index, reply>>
    /\ TaskStep("hang", 0)

\* the command is over: its MutexGuard is dropped
cmd_unlocks ==
    /\ tasks.cmd = "unlock"
    /\ tasks' = [tasks EXCEPT !.lock = "free", !.cmd = "idle", !.minimize = FALSE]
    /\ UNCHANGED <<effects, last_index, reply>>
    /\ TaskStep("unlock", 0)

\* OverlayApp::update reads the index file; a value other than last_index is
\* kept and is to be handed to the engine
overlay_reads ==
    /\ tasks.overlay = "read"
    /\ LET read == read_index_from_file(index_file)
           fresh == read # None /\ read[1] # last_index
       IN  /\ last_index' = (IF fresh THEN read[1] ELSE last_index)
           /\ tasks' = [tasks EXCEPT !.overlay = IF fresh THEN "set" ELSE "poll"]
    /\ effects' = <<>>
    /\ UNCHANGED reply
    /\ TaskStep("read_index_from_file", 0)

\* state.lock(); state.set_current_index(index); the guard dropped
overlay_sets ==
    /\ tasks.overlay = "set"
    /\ lock("overlay")
    /\ current_index' = SetIndex(current_index, last_index, windows)
    /\ tasks' = [tasks EXCEPT !.overlay = "poll"]
    /\ result' = "Ok"
    /\ effects' = <<>>
    /\ run' = <<>>
    /\ UNCHANGED <<windows, index_file, last_index, reply>>
    /\ Record(Call("set_current_index", 0, FALSE, None, last_index))

\* the periodic sync: when 500 ms have passed (due) the backend is asked for
\* the list, before the Mutex is taken; an Ok list is to be handed over
overlay_polls(due, got) ==
    /\ tasks.overlay = "poll"
    /\ LET synced == due /\ got # None
       IN  /\ reply' = (IF synced THEN got ELSE None)
           /\ tasks' = [tasks EXCEPT
                           !.overlay = IF synced THEN "update" ELSE "render",
                           !.waited = synced /\ tasks.lock = "cmd"]
    /\ effects' = <<>>
    /\ UNCHANGED last_index
    /\ TaskStep("get_eve_windows", due)

\* state.lock(); state.update_windows(windows); the guard dropped
overlay_updates ==
    /\ tasks.overlay = "update"
    /\ lock("overlay")
    /\ windows' = reply[1]
    /\ current_index' = ClampIndex(current_index, reply[1])
    /\ reply' = None
    /\ tasks' = [tasks EXCEPT !.overlay = "render"]
    /\ result' = "Ok"
    /\ effects' = <<>>
    /\ run' = <<>>
    /\ UNCHANGED <<index_file, last_index>>
    /\ Record(Call("update_windows", 0, FALSE, None, reply[1]))

\* the client list is drawn from the engine under the Mutex: the frame is done
overlay_renders ==
    /\ tasks.overlay = "render"
    /\ lock("overlay")
    /\ tasks' = [tasks EXCEPT !.overlay = "read", !.waited = FALSE]
    /\ effects' = <<>>
    /\ UNCHANGED <<last_index, reply>>
    /\ TaskStep("render", 0)

\* the steps of the command task that end by themselves
CommandProceeds ==
    \/ \E minimize \in BOOLEAN : cmd_cycle_begins(minimize)
    \/ \E ok \in BOOLEAN : cmd_call_returns(ok)
    \/ cmd_unlocks

\* the steps of the overlay's frame
OverlayProceeds ==
    \/ overlay_reads
    \/ overlay_sets
    \/ overlay_polls(FALSE, None)
    \/ \E got \in {None} \cup {Some(list) : list \in PolledLists} :
          overlay_polls(TRUE, got)
    \/ overlay_updates
    \/ overlay_renders

NextTasks ==
    \/ cmd_locks
    \/ CommandProceeds
    \/ cmd_call_hangs
    \/ OverlayProceeds

SpecTasks == Init /\ [][NextTasks]_vars

\* the scheduler runs every task that can run, and a task waiting for the
\* Mutex gets it if it is free again and again; a command, once started,
\* goes on unless a tool hangs
SpecTasksFair ==
    /\ SpecTasks
    /\ WF_vars(CommandProceeds)
    /\ SF_vars(OverlayProceeds)

----------------------------------------------------------------------------
(* The index file between the cycling process, whose write_index is an       *)
(* fs::write (the file is opened with truncation, then the text is written), *)
(* and the overlay that reads it in every frame                              *)

\* fs::write opens INDEX_FILE: it is created or cut to length 0
write_index_truncates(index) ==
    /\ tasks.writing = None
    /\ index_file' = <<>>
    /\ tasks' = [tasks EXCEPT
                    !.writing = Some([previous |-> index_file,
                                      new |-> to_string(index)])]
    /\ result' = "Ok"
    /\ effects' = <<>>
    /\ run' = <<>>
    /\ UNCHANGED <<windows, current_index, last_index, reply>>
    /\ Record(Call("write_index", 0, FALSE, None, index))

\* fs::write writes the text and closes the file
write_index_completes ==
    /\ tasks.writing # None
    /\ index_file' = tasks.writing[1].new
    /\ tasks' = [tasks EXCEPT !.writing = None]
    /\ result' = "Ok"
    /\ effects' = <<>>
    /\ run' = <<>>
    /\ UNCHANGED <<windows, current_index, last_index, reply>>
    /\ Record(Call("write_index_done", 0, FALSE, None, 0))

NextMirror ==
    \/ overlay_update(FALSE, None)
    \/ \E got \in {None} \cup {Some(list) : list \in WindowLists} :
          overlay_update(TRUE, got)
    \/ \E index \in Indexes : write_index_truncates(index)
    \/ write_index_completes

SpecMirror == Init /\ [][NextMirror]_vars

----------------------------------------------------------------------------
(* Vocabulary of the properties *)

IsCycle == last.op \in {"cycle_forward", "cycle_backward"}

\* the calls of one kind among the effects of the last operation, in order
EffectsOf(kind) == SelectSeq(effects, LAMBDA e : e.op = kind)

\* the backend calls (everything but the file write) of the last operation
BackendCalls == SelectSeq(effects, LAMBDA e : e.op # "write")

\* the ids the last operation passed to calls of one kind
IdsOf(kind) == [k \in 1..Len(EffectsOf(kind)) |-> EffectsOf(kind)[k].arg]

\* k is the 1-based place of the first window of the list with the id
FirstWithId(k, id) ==
    /\ k \in 1..Len(windows)
    /\ windows[k].id = id
    /\ \A j \in 1..(k - 1) : windows[j].id # id

----------------------------------------------------------------------------
(* C1: whenever the window list is nonempty, 0 <= current_index < len(windows), *)
(* after any sequence of update_windows, cycle_forward, cycle_backward,         *)
(* switch_to, sync_with_active and set_current_index calls.                     *)
C1_IndexInBounds ==
    windows # <<>> => (current_index >= 0 /\ current_index < Len(windows))

\* an index set past the end while the list was empty meets a nonempty list
C1_Witness ==
    /\ last.op = "update_windows"
    /\ pre.len = 0
    /\ windows # <<>>
    /\ pre.index >= Len(windows)

(* C2: on a nonempty list of n windows with index i, cycle_forward sets the     *)
(* index to (i+1) mod n, cycle_backward to n-1 when i = 0 and to i-1 otherwise, *)
(* and each calls activate exactly once, with the id of the window at the new   *)
(* index.                                                                       *)
C2_CycleStep ==
    (IsCycle /\ windows # <<>>) =>
        /\ last.op = "cycle_forward" =>
              current_index = (pre.index + 1) % Len(windows)
        /\ last.op = "cycle_backward" =>
              current_index = (IF pre.index = 0 THEN Len(windows) - 1
                               ELSE pre.index - 1)
        /\ IdsOf("activate") = <<windows[current_index + 1].id>>

\* cycle_backward wrapping from 0 to the last of several windows
C2_Witness ==
    /\ last.op = "cycle_backward"
    /\ Len(windows) >= 2
    /\ pre.index = 0
    /\ current_index = Len(windows) - 1
    /\ Len(EffectsOf("activate")) = 1

(* C3: for a list of n >= 2 windows that stays unchanged and a valid starting   *)
(* index i, cycle_forward then cycle_backward leaves the index at i, and n      *)
(* consecutive cycle_forward calls leave the index at i.                        *)
C3_RoundTrip ==
    LET n == Len(windows)
        m == Len(run)
    IN  n >= 2 =>
        /\ (/\ m >= 2
            /\ run[m].op = "cycle_backward"
            /\ run[m - 1].op = "cycle_forward")
           => current_index = run[m - 1].pre
        /\ (/\ m >= n
            /\ \A k \in (m - n + 1)..m : run[k].op = "cycle_forward")
           => current_index = run[m - n + 1].pre

\* as many cycle_forward calls in a row as there are windows (two or more), from
\* an index that is not 0
C3_Witness ==
    /\ Len(windows) >= 2
    /\ Len(run) = Len(windows)
    /\ \A k \in 1..Len(run) : run[k].op = "cycle_forward"
    /\ run[1].pre = 1
    /\ current_index = 1

\* cycle_forward then cycle_backward, across the wrap
C3_WitnessBack ==
    /\ Len(windows) >= 2
    /\ Len(run) = 2
    /\ run[1].op = "cycle_forward" /\ run[1].pre = Len(windows) - 1
    /\ run[2].op = "cycle_backward"

(* C4, as claimed: with exactly one window, cycle_forward and cycle_backward    *)
(* are no-ops (they change nothing and issue nothing) that keep the index at 0. *)
C4_Original ==
    (IsCycle /\ Len(windows) = 1) =>
        (current_index = 0 /\ changed = {} /\ effects = <<>>)

(* C4, amended: with exactly one window, cycle_forward and cycle_backward keep  *)
(* the index at 0 and leave the list as it is, but they are not no-ops: they    *)
(* write 0 to the index file and call activate once on the window, after a      *)
(* restore of it when minimize-on-switch is enabled; they never minimize.       *)
C4_SingleWindow ==
    (IsCycle /\ Len(windows) = 1) =>
        /\ pre.index = 0
        /\ current_index = 0
        /\ "windows" \notin changed
        /\ [k \in 1..Len(effects) |-> effects[k].op]
              = (IF last.minimize THEN <<"write", "restore", "activate">>
                 ELSE <<"write", "activate">>)
        /\ effects[1].arg = 0
        /\ \A k \in 2..Len(effects) : effects[k].arg = windows[1].id

\* a cycle on one window with minimize-on-switch enabled and every call succeeding
C4_Witness ==
    /\ IsCycle
    /\ Len(windows) = 1
    /\ last.minimize
    /\ \A k \in 1..Len(effects) : effects[k].ok

(* C5: on an empty list cycle_forward and cycle_backward return success, leave  *)
(* current_index unchanged, do not write the index file and issue no backend    *)
(* call.                                                                        *)
C5_CycleEmpty ==
    (IsCycle /\ pre.len = 0) =>
        /\ result = "Ok"
        /\ current_index = pre.index
        /\ changed = {}
        /\ effects = <<>>

\* a cycle on the empty list while the index is held at a value that is not 0
C5_Witness ==
    /\ IsCycle
    /\ pre.len = 0
    /\ windows = <<>>
    /\ pre.index = 2

(* C6: update_windows(list) replaces the list by list; for a nonempty list it   *)
(* keeps current_index when current_index < len(list) and sets it to 0          *)
(* otherwise; for an empty list the length becomes 0 and the index is kept.     *)
C6_UpdateClamp ==
    last.op = "update_windows" =>
        /\ windows = last.arg
        /\ windows # <<>> =>
              current_index = (IF pre.index < Len(windows) THEN pre.index ELSE 0)
        /\ last.arg = <<>> => (Len(windows) = 0 /\ current_index = pre.index)

\* a list with the index on its last window shrinks to a shorter, nonempty list
C6_Witness ==
    /\ last.op = "update_windows"
    /\ pre.len >= 2
    /\ pre.index = pre.len - 1
    /\ windows # <<>>
    /\ Len(windows) < pre.len
    /\ current_index = 0

(* C7, as claimed: whenever update_windows replaces an empty list by a nonempty *)
(* one, current_index is 0 afterwards, whatever preceded the empty state.       *)
C7_Original ==
    (last.op = "update_windows" /\ pre.len = 0 /\ windows # <<>>) =>
        current_index = 0

(* C7, amended: when update_windows replaces an empty list by a nonempty one,   *)
(* current_index is 0 afterwards unless the index held through the empty state  *)
(* is smaller than the new list's length, in which case that index is kept.     *)
C7_EmptyToNonempty ==
    (last.op = "update_windows" /\ pre.len = 0 /\ windows # <<>>) =>
        current_index = (IF pre.index < Len(windows) THEN pre.index ELSE 0)

\* a nonzero index held over the empty list survives the next nonempty list
C7_Witness ==
    /\ last.op = "update_windows"
    /\ pre.len = 0
    /\ pre.index > 0
    /\ pre.index < Len(windows)
    /\ current_index = pre.index

(* C8: sync_with_active(id) sets current_index to the position of the first     *)
(* window whose id equals id, and leaves it unchanged when no window has that   *)
(* id; the list is unchanged, the index file is not written and no backend call *)
(* is made.                                                                     *)
C8_Sync ==
    last.op = "sync_with_active" =>
        /\ \A k \in 1..Len(windows) :
              FirstWithId(k, last.arg) => current_index = k - 1
        /\ (\A k \in 1..Len(windows) : windows[k].id # last.arg) =>
              current_index = pre.index
        /\ "windows" \notin changed
        /\ "index_file" \notin changed
        /\ effects = <<>>

\* two windows share the id, and the index moves from the later to the earlier
C8_Witness ==
    /\ last.op = "sync_with_active"
    /\ \E j, k \in 1..Len(windows) :
          /\ j < k
          /\ windows[j].id = last.arg
          /\ windows[k].id = last.arg
          /\ pre.index = k - 1
          /\ current_index = j - 1

(* C9: switch_to with target = 0, or on an empty list, returns success for      *)
(* every character order, issues no backend call and leaves current_index and   *)
(* the index file unchanged.                                                    *)
C9_SwitchNoop ==
    (last.op = "switch_to" /\ (last.target = 0 \/ pre.len = 0)) =>
        /\ result = "Ok"
        /\ BackendCalls = <<>>
        /\ effects = <<>>
        /\ changed = {}
        /\ current_index = pre.index

\* target 1 with a character order on the empty list
C9_Witness ==
    /\ last.op = "switch_to"
    /\ windows = <<>>
    /\ last.target = 1
    /\ last.order # None
    /\ last.minimize

\* the target of the last switch_to is beyond range: beyond the character order
\* when one is supplied, beyond the window list when none is
BeyondRange ==
    /\ last.op = "switch_to"
    /\ last.target >= 1
    /\ IF last.order # None
       THEN last.target - 1 >= Len(last.order[1])
       ELSE last.target - 1 >= Len(windows)

(* C10, as claimed: switch_to with a target beyond range fails with an          *)
(* out-of-range error, issues no backend call and leaves current_index and the  *)
(* index file as before the call.                                               *)
C10_Original ==
    BeyondRange =>
        (result = "OutOfRange" /\ BackendCalls = <<>> /\ changed = {})

(* C10, amended: on a nonempty list, switch_to with a target beyond range fails *)
(* with an out-of-range error, issues no backend call and leaves current_index  *)
(* and the index file as before the call (on an empty list it is the no-op of   *)
(* C9 and returns success).                                                     *)
C10_OutOfRange ==
    (BeyondRange /\ windows # <<>>) =>
        /\ result = "OutOfRange"
        /\ BackendCalls = <<>>
        /\ effects = <<>>
        /\ changed = {}
        /\ current_index = pre.index

\* a target within the window list but beyond the character order
C10_Witness ==
    /\ BeyondRange
    /\ Len(windows) >= 2
    /\ last.order # None
    /\ Len(last.order[1]) = 1
    /\ last.target = 2
    /\ result = "OutOfRange"

\* a target beyond the window list, with no character order
C10_WitnessNoOrder ==
    /\ BeyondRange
    /\ Len(windows) = 2
    /\ last.order = None
    /\ last.target = 3
    /\ result = "OutOfRange"

----------------------------------------------------------------------------
\* the last operation was a switch_to whose character order names, at place
\* target - 1, a title that no window of the list has
NamesAbsentTitle ==
    /\ last.op = "switch_to"
    /\ last.target >= 1
    /\ last.order # None
    /\ last.target <= Len(last.order[1])
    /\ \A k \in 1..Len(windows) : windows[k].title # last.order[1][last.target]

(* C11, as stated: a switch_to with a character order whose entry target - 1   *)
(* names a title that no window of the current list has fails with the         *)
(* not-found error, makes no backend call and leaves current_index and the     *)
(* mirror file as they were.                                                   *)
C11_Original ==
    NamesAbsentTitle =>
        /\ result = "NotFound"
        /\ effects = <<>>
        /\ changed = {}

(* C11: on a nonempty window list, a switch_to with a character order whose    *)
(* entry target - 1 names a title that no window of the list has fails with    *)
(* the not-found error, makes no backend call and leaves current_index and     *)
(* the mirror file as they were; on an empty list the call returns Ok.         *)
C11_NotFound ==
    NamesAbsentTitle =>
        /\ result = (IF windows = <<>> THEN "Ok" ELSE "NotFound")
        /\ effects = <<>>
        /\ changed = {}

\* the order names a character while only other characters are logged in
C11_Witness ==
    /\ NamesAbsentTitle
    /\ windows # <<>>
    /\ last.target <= Len(windows)
    /\ result = "NotFound"

\* k is the 1-based place in the list that the target of the last switch_to
\* stands for: the first window titled order[target - 1] when an order was
\* given, the place target itself otherwise
ResolvesTo(k) ==
    /\ last.op = "switch_to"
    /\ last.target >= 1
    /\ k \in 1..Len(windows)
    /\ IF last.order = None
       THEN k = last.target
       ELSE /\ last.target <= Len(last.order[1])
            /\ windows[k].title = last.order[1][last.target]
            /\ \A j \in 1..(k - 1) :
                  windows[j].title # last.order[1][last.target]

(* C12: a switch_to whose target resolves to the index that is already         *)
(* current_index returns Ok, makes no backend call and does not write the      *)
(* mirror file.                                                                *)
C12_SameIndex ==
    \A k \in 1..Len(windows) :
        (ResolvesTo(k) /\ k - 1 = pre.index) =>
            /\ result = "Ok"
            /\ effects = <<>>
            /\ changed = {}

\* the current window asked for by its character name, with minimize enabled
C12_Witness ==
    /\ Len(windows) >= 2
    /\ ResolvesTo(2)
    /\ pre.index = 1
    /\ last.order # None
    /\ last.minimize
    /\ effects = <<>>

\* the backend calls of the last operation, without their outcomes
CallsMade == [k \in 1..Len(BackendCalls) |->
                <<BackendCalls[k].op, BackendCalls[k].arg>>]

(* C13, as stated: a switch_to with a valid target that resolves to an index   *)
(* different from current_index sets current_index to it and calls activate    *)
(* exactly once with that window's id; with minimize-on-switch enabled it      *)
(* calls restore on that id before activate and minimize on the id of the      *)
(* previously current window after activate, and with it disabled it calls     *)
(* neither.                                                                    *)
C13_Original ==
    \A k \in 1..Len(windows) :
        (ResolvesTo(k) /\ k - 1 # pre.index) =>
            /\ current_index = k - 1
            /\ IdsOf("activate") = <<windows[k].id>>
            /\ last.minimize =>
                  CallsMade = << <<"restore", windows[k].id>>,
                                 <<"activate", windows[k].id>>,
                                 <<"minimize", windows[pre.index + 1].id>> >>
            /\ ~last.minimize =>
                  (EffectsOf("restore") = <<>> /\ EffectsOf("minimize") = <<>>)

\* the one activate call of the last operation succeeded
Activated ==
    Len(EffectsOf("activate")) = 1 /\ EffectsOf("activate")[1].ok

(* C13: a switch_to with a valid target that resolves to an index different    *)
(* from current_index sets current_index to it and calls activate exactly once *)
(* with that window's id; with minimize-on-switch enabled it calls restore on  *)
(* that id before activate and, when activate succeeds, minimize on the id of  *)
(* the previously current window after activate (no minimize when activate     *)
(* fails); with it disabled it calls neither.                                  *)
C13_SwitchEffects ==
    \A k \in 1..Len(windows) :
        (ResolvesTo(k) /\ k - 1 # pre.index) =>
            /\ current_index = k - 1
            /\ IdsOf("activate") = <<windows[k].id>>
            /\ (last.minimize /\ Activated) =>
                  CallsMade = << <<"restore", windows[k].id>>,
                                 <<"activate", windows[k].id>>,
                                 <<"minimize", windows[pre.index + 1].id>> >>
            /\ (last.minimize /\ ~Activated) =>
                  CallsMade = << <<"restore", windows[k].id>>,
                                 <<"activate", windows[k].id>> >>
            /\ ~last.minimize =>
                  CallsMade = << <<"activate", windows[k].id>> >>

\* a switch between two different windows with minimize enabled, all calls made
C13_Witness ==
    /\ Len(windows) >= 2
    /\ ResolvesTo(2)
    /\ pre.index = 0
    /\ windows[1].id # windows[2].id
    /\ last.minimize
    /\ Len(BackendCalls) = 3

\* the same switch with a failing activate: the previous window stays up
C13_WitnessFailed ==
    /\ Len(windows) >= 2
    /\ ResolvesTo(2)
    /\ pre.index = 0
    /\ last.minimize
    /\ result = "ActivateFailed"
    /\ EffectsOf("minimize") = <<>>

(* C14: with a character order, target t resolves to the place of the first    *)
(* window whose title equals the order's entry t - 1, wherever the windows     *)
(* stand in the enumeration; without one it resolves to place t - 1 of the     *)
(* window list.                                                                *)
C14_Resolution ==
    \A k \in 1..Len(windows) :
        ResolvesTo(k) =>
            /\ result \in {"Ok", "ActivateFailed"}
            /\ current_index = k - 1
            /\ effects # <<>> => IdsOf("activate") = <<windows[k].id>>

\* the order puts first a character whose window is enumerated second
C14_Witness ==
    /\ Len(windows) >= 2
    /\ last.order # None
    /\ last.target = 1
    /\ ResolvesTo(2)
    /\ pre.index = 0
    /\ current_index = 1

\* two windows carry the title asked for: the first of them is taken
C14_WitnessFirst ==
    /\ Len(windows) >= 2
    /\ last.order # None
    /\ ResolvesTo(1)
    /\ windows[2].title = windows[1].title
    /\ pre.index = 1
    /\ current_index = 0

\* the kinds of the calls of the last operation, mirror write included, in order
KindsMade == [k \in 1..Len(effects) |-> effects[k].op]

(* C15: every cycle_forward / cycle_backward on a nonempty list performs its   *)
(* effects in this order: the write of the new index to the mirror, then (only *)
(* with minimize-on-switch) restore of the new target, then activate of the    *)
(* new target, then (only with minimize-on-switch and a changed index)         *)
(* minimize of the previous target; minimize never comes before activate.      *)
C15_CycleOrder ==
    (IsCycle /\ windows # <<>>) =>
        LET new == windows[current_index + 1].id
            old == windows[pre.index + 1].id
            head == <<"write">>
                    \o (IF last.minimize THEN <<"restore">> ELSE <<>>)
                    \o <<"activate">>
        IN  /\ KindsMade \in {head, head \o <<"minimize">>}
            /\ EffectsOf("write")[1].arg = current_index
            /\ IdsOf("restore") \in {<<>>, <<new>>}
            /\ IdsOf("activate") = <<new>>
            /\ IdsOf("minimize") \in {<<>>, <<old>>}
            /\ EffectsOf("minimize") # <<>> =>
                  (last.minimize /\ current_index # pre.index)
            /\ (Activated /\ last.minimize /\ current_index # pre.index) =>
                  EffectsOf("minimize") # <<>>

\* a cycle that makes all four calls
C15_Witness ==
    /\ IsCycle
    /\ Len(windows) >= 2
    /\ KindsMade = <<"write", "restore", "activate", "minimize">>
    /\ effects[4].arg # effects[3].arg

\* the last operation was a cycle or a switch that went as far as its effects
HasEffects ==
    /\ last.op \in {"cycle_forward", "cycle_backward", "switch_to"}
    /\ effects # <<>>

\* the last operation is due a minimize of the previous target once its
\* activate has succeeded
MinimizeDue ==
    /\ last.minimize
    /\ (IsCycle => current_index # pre.index)

(* C16: in cycle_forward, cycle_backward and switch_to a failure of restore,   *)
(* of minimize or of the mirror write never makes the operation fail and never *)
(* prevents the following steps, while a failure of activate is returned to    *)
(* the caller and minimize of the previous target is then not issued.          *)
C16_Failures ==
    HasEffects =>
        /\ Len(EffectsOf("write")) = 1
        /\ Len(EffectsOf("restore")) = (IF last.minimize THEN 1 ELSE 0)
        /\ Len(EffectsOf("activate")) = 1
        /\ Activated =>
              /\ result = "Ok"
              /\ Len(EffectsOf("minimize")) = (IF MinimizeDue THEN 1 ELSE 0)
        /\ ~Activated =>
              /\ result = "ActivateFailed"
              /\ EffectsOf("minimize") = <<>>

\* a failed restore followed by activate and minimize, the operation succeeding
C16_Witness ==
    /\ HasEffects
    /\ KindsMade = <<"write", "restore", "activate", "minimize">>
    /\ ~effects[2].ok
    /\ result = "Ok"

\* a failed mirror write followed by the backend calls
C16_WitnessWrite ==
    /\ HasEffects
    /\ ~effects[1].ok
    /\ Len(effects) >= 3
    /\ result = "Ok"

\* a failed minimize, the operation succeeding
C16_WitnessMinimize ==
    /\ HasEffects
    /\ Len(effects) = 4
    /\ ~effects[4].ok
    /\ result = "Ok"

\* a failed activate with minimize enabled
C16_WitnessActivate ==
    /\ HasEffects
    /\ MinimizeDue
    /\ result = "ActivateFailed"
    /\ KindsMade = <<"write", "restore", "activate">>

\* the last operation wrote the new value of current_index to the mirror
WroteNewIndex ==
    /\ Len(EffectsOf("write")) = 1
    /\ EffectsOf("write")[1].arg = current_index
    /\ EffectsOf("write")[1].ok => index_file = to_string(current_index)

(* C19, as stated: the mirror file is written, with the new value, on every    *)
(* change of current_index (write failures ignored).                           *)
C19_Original ==
    "current_index" \in changed => WroteNewIndex

(* C19: the mirror file is written, with the new value, on every change of     *)
(* current_index made by cycle_forward, cycle_backward or switch_to (write     *)
(* failures ignored); a change made by update_windows, sync_with_active or     *)
(* set_current_index is not written.                                           *)
C19_WrittenOnChange ==
    "current_index" \in changed =>
        IF last.op \in {"cycle_forward", "cycle_backward", "switch_to"}
        THEN WroteNewIndex
        ELSE EffectsOf("write") = <<>> /\ "index_file" \notin changed

\* a cycle moves the index and the mirror follows
C19_Witness ==
    /\ IsCycle
    /\ "current_index" \in changed
    /\ "index_file" \in changed
    /\ index_file = to_string(current_index)

\* sync_with_active moves the index and the mirror keeps its old value
C19_WitnessSync ==
    /\ last.op = "sync_with_active"
    /\ "current_index" \in changed
    /\ index_file # Missing
    /\ index_file # to_string(current_index)

\* the last operation was a cycle or a switch whose activate call failed
ActivateFailed ==
    /\ last.op \in {"cycle_forward", "cycle_backward", "switch_to"}
    /\ result = "ActivateFailed"

(* C17: a cycle_forward, cycle_backward or switch_to that fails (its activate  *)
(* call fails) never leaves current_index on a window that was never actually  *)
(* activated: when it fails, the index it moved stands on a window whose id    *)
(* some activate call has succeeded on.                                        *)
C17_FailedOnActivated ==
    (activated # None /\ ActivateFailed /\ current_index # pre.index) =>
        windows[current_index + 1].id \in activated[1]

(* C18: provided writes succeed, the mirror file always holds the index chosen *)
(* by the most recent cycle_forward, cycle_backward or index-changing          *)
(* switch_to; update_windows, sync_with_active and set_current_index never     *)
(* write the mirror, whatever they do to current_index.                        *)
C18_MirrorHoldsChosen ==
    /\ (chosen # None /\ chosen[1].mirrored) =>
          index_file = to_string(chosen[1].index)
    /\ last.op \in {"update_windows", "sync_with_active", "set_current_index"} =>
          (EffectsOf("write") = <<>> /\ "index_file" \notin changed)

\* the index has since been moved by sync_with_active and the mirror still
\* holds what the cycle or switch before it chose
C18_Witness ==
    /\ chosen # None
    /\ chosen[1].mirrored
    /\ last.op = "sync_with_active"
    /\ "current_index" \in changed
    /\ current_index # chosen[1].index
    /\ index_file = to_string(chosen[1].index)

\* the content is a decimal unsigned integer as str::parse takes it: between
\* surrounding whitespace, an optional "+" and then digits, at least one
DecimalUnsigned(file) ==
    /\ file \notin {Missing, Unreadable}
    /\ \E a \in 1..Len(file), b \in 1..Len(file) :
          /\ a <= b
          /\ \A k \in 1..Len(file) : (k < a \/ k > b) => file[k] \in Whitespace
          /\ \A k \in a..b : \/ \E d \in 1..10 : DigitChars[d] = file[k]
                             \/ k = a /\ a < b /\ file[k] = "+"

\* the last frame of the overlay found no index to read
NothingToRead ==
    /\ last.op = "overlay_update"
    /\ ~DecimalUnsigned(index_file)

(* C20: reading the mirror when the file is missing or its content does not    *)
(* parse as a decimal unsigned integer yields an absent result, never an       *)
(* error, and the overlay reader then leaves the engine's current_index and    *)
(* its own last-seen index unchanged (the window poll of the same frame finds  *)
(* the index as it was).                                                       *)
C20_AbsentRead ==
    NothingToRead =>
        /\ result = "Ok"
        /\ EffectsOf("read") = <<Effect("read", 0, FALSE)>>
        /\ EffectsOf("set_current_index") = <<>>
        /\ "last_index" \notin changed
        /\ current_index =
              (IF EffectsOf("update_windows") # <<>>
                  /\ windows # <<>> /\ pre.index >= Len(windows)
               THEN 0 ELSE pre.index)

\* a frame that finds text that is no number, after an index other than 0 was
\* seen and adopted
C20_Witness ==
    /\ NothingToRead
    /\ index_file \notin {Missing, Unreadable}
    /\ index_file # <<>>
    /\ last_index # 0
    /\ current_index = last_index
    /\ EffectsOf("update_windows") = <<>>

\* a frame that finds the file missing
C20_WitnessMissing ==
    /\ NothingToRead
    /\ index_file = Missing
    /\ last_index # 0

\* the last frame of the overlay left current_index to its window poll alone:
\* the index is as the frame found it, or 0 where update_windows resets it
IndexLeftToPoll ==
    current_index =
        (IF EffectsOf("update_windows") # <<>>
            /\ windows # <<>> /\ pre.index >= Len(windows)
         THEN 0 ELSE pre.index)

(* C21: a stale mirror value left behind by a previous process is treated by   *)
(* the reader as "no update": until a cycle or switch of the current run       *)
(* writes the mirror, reading it never changes the engine's current_index.     *)
C21_StaleIgnored ==
    last.op = "overlay_update" => IndexLeftToPoll

(* C22: under every interleaving of the polling task and the user-command      *)
(* task, a poll-driven update_windows never overwrites an index freshly chosen *)
(* by cycle/switch: after update_windows(list) the index equals the index      *)
(* before it, unless that index is >= len(list) and list is nonempty, in which *)
(* case it is 0.                                                               *)
C22_PollKeepsChosen ==
    last.op = "update_windows" =>
        \/ current_index = pre.index /\ (windows = <<>> \/ pre.index < Len(windows))
        \/ current_index = 0 /\ windows # <<>> /\ pre.index >= Len(windows)

\* a poll right after a cycle or switch chose the last index of the list: the
\* new list is as long and the chosen index stays
C22_Witness ==
    /\ last.op = "update_windows"
    /\ chosen # None
    /\ chosen[1].mirrored
    /\ chosen[1].index = pre.index
    /\ pre.index >= 1
    /\ pre.index = Len(windows) - 1
    /\ "windows" \in changed
    /\ current_index = pre.index

----------------------------------------------------------------------------
\* the last step was the call op of the backend, on a listing that its
\* command or request did give
Answered(op, backend) ==
    /\ last.op = op
    /\ last.arg.backend = backend
    /\ last.arg.input # None

\* the title starts with the fixed prefix and does not contain the excluded
\* word
Matches(title) ==
    /\ title # <<>>
    /\ title[1] = Prefix
    /\ \A k \in 1..Len(title) : title[k] # Excluded

\* every node of a tree, the node itself first, then those below its nodes,
\* then those below its floating_nodes
RECURSIVE PreOrder(_)
RECURSIVE PreOrderEach(_)
PreOrder(node) ==
    <<node>> \o PreOrderEach(node.nodes) \o PreOrderEach(node.floating_nodes)

PreOrderEach(children) ==
    IF children = <<>> THEN <<>>
    ELSE PreOrder(children[1]) \o PreOrderEach(Tail(children))

\* a container node that carries a non-null application identifier or a
\* non-null window-properties field
CountsAsWindow(node) ==
    /\ node.type \in {"con", "floating_con"}
    /\ \/ node.app_id \notin {Absent, Null}
       \/ node.window_properties \notin {Absent, Null}

\* the window nodes of a tree, in pre-order
WindowNodes(tree) == SelectSeq(PreOrder(tree), CountsAsWindow)

\* the titles of the windows a listing lists, in listing order (Null where
\* the window has no title to read)
TitlesListed(backend, listing) ==
    CASE backend = "X11" ->
            [k \in 1..Len(listing) |->
                IF listing[k].title = None THEN Null ELSE listing[k].title[1]]
      [] backend \in {"KWin", "Hyprland"} ->
            [k \in 1..Len(listing) |-> listing[k].title]
      [] backend = "Sway" ->
            [k \in 1..Len(WindowNodes(listing)) |-> WindowNodes(listing)[k].name]

\* text ends with tail
EndsWith(text, tail) ==
    /\ Len(tail) <= Len(text)
    /\ SubSeq(text, Len(text) - Len(tail) + 1, Len(text)) = tail

(* C25: for every backend, enumerate returns exactly one record for each       *)
(* currently listed window whose title starts with the fixed prefix "EVE - "   *)
(* and does not contain the excluded substring "Launcher", and no record for   *)
(* any other window, in listing order; with no matching window it returns an   *)
(* empty list, not an error.                                                   *)
C25_OnePerMatch ==
    \A backend \in Backends :
        Answered("get_eve_windows", backend) =>
            LET matching == SelectSeq(TitlesListed(backend, last.arg.input[1]),
                                      Matches)
            IN  /\ reply # None
                /\ Len(reply[1]) = Len(matching)
                /\ \A k \in 1..Len(matching) :
                      EndsWith(matching[k], reply[1][k].title)

(* C26: for every record returned by enumerate, the stored title is the        *)
(* window's original title with the fixed prefix removed: the prefix "EVE - "  *)
(* followed by the stored title equals the original title.                     *)
C26_PrefixRemoved ==
    \A backend \in Backends \ {"Sway"} :
        Answered("get_eve_windows", backend) =>
            /\ reply # None
            /\ \A k \in 1..Len(reply[1]) :
                  \E j \in 1..Len(last.arg.input[1]) :
                      /\ TitlesListed(backend, last.arg.input[1])[j]
                            = <<Prefix>> \o reply[1][k].title
                      /\ backend = "X11" =>
                            last.arg.input[1][j].id = reply[1][k].id

(* C29: in the tree-query backend, a container node counts as a window if it   *)
(* carries a non-null application identifier or a non-null window-properties   *)
(* field; in particular a node whose application identifier field is present   *)
(* but null and whose window-properties field is non-null is returned as a     *)
(* window.                                                                     *)
C29_CountsAsWindow ==
    Answered("get_all_windows", "Sway") =>
        /\ reply # None
        /\ \A k \in 1..Len(PreOrder(last.arg.input[1])) :
              LET node == PreOrder(last.arg.input[1])[k]
              IN  CountsAsWindow(node) <=>
                     \E j \in 1..Len(reply[1]) : reply[1][j] = node

(* C30: in the tree-query backend, the recursive descent over a finite         *)
(* container tree terminates and returns every window node reachable from the  *)
(* root through child-container and floating-child arrays, at any depth        *)
(* (including below another window node), exactly once, in pre-order with      *)
(* child containers visited before floating children.                          *)
C30_PreOrderOnce ==
    Answered("get_all_windows", "Sway") =>
        reply = Some(WindowNodes(last.arg.input[1]))

\* the last step was the call op of the backend
Called(op, backend) == last.op = op /\ last.arg.backend = backend

\* the focus command of the backend was reported successful: the requests
\* were carried out, or the control utility that was run last exited with
\* status 0
FocusReported(backend, got) ==
    CASE backend = "X11" -> got.outcome = "done"
      [] backend = "KWin" ->
            IF got.title /\ got.kdotool = "success" THEN TRUE
            ELSE got.wmctrl = "success"
      [] backend \in {"Sway", "Hyprland"} -> got = "success"

(* C27: for every backend, activate(id) returns a failure whenever the         *)
(* underlying mechanism reports failure (the control utility exits with a      *)
(* non-zero status, or the protocol request fails), and returns success only   *)
(* when the focus command was reported successful.                             *)
C27_FailureReported ==
    \A backend \in Backends :
        Called("activate_window", backend) =>
            (reply = Some(Unit) <=> FocusReported(backend, last.arg.input))

\* the ids of the focused windows in what the query of the backend gave (no
\* id where the query itself failed)
FocusedIds(backend, got) ==
    CASE backend = "X11" ->
            IF got.reply = "value" /\ got.value # <<>> /\ got.value[1] # 0
            THEN {got.value[1]} ELSE {}
      [] backend = "KWin" ->
            IF got # None /\ parse(trim(got[1])) # None
            THEN {parse(trim(got[1]))[1]} ELSE {}
      [] backend = "Sway" ->
            IF got = None THEN {}
            ELSE {WindowNodes(got[1])[k].id[1] :
                    k \in {j \in 1..Len(WindowNodes(got[1])) :
                             /\ WindowNodes(got[1])[j].focused
                             /\ WindowNodes(got[1])[j].id # None}}
      [] backend = "Hyprland" ->
            IF got.output = "object" /\ got.address # Absent
            THEN {HyprlandId(got.address)} ELSE {}

\* the query of the backend was answered
QueryAnswered(backend, got) ==
    CASE backend = "X11" -> got.reply = "value"
      [] backend \in {"KWin", "Sway"} -> got # None
      [] backend = "Hyprland" -> got.output = "object"

(* C28: for every backend, get_active returns the id of the currently focused  *)
(* window, and fails with a not-found error when no window is focused; it      *)
(* never returns a success value (such as 0) that is not the id of a focused   *)
(* window.                                                                     *)
C28_FocusedOrNotFound ==
    \A backend \in Backends :
        Called("get_active_window", backend) =>
            LET focused == FocusedIds(backend, last.arg.input)
            IN  /\ reply # None => reply[1] \in focused
                /\ focused = {} => reply = None
                /\ (QueryAnswered(backend, last.arg.input) /\ focused # {})
                      => reply # None

\* a command is between its index change and the return of its last backend
\* call
InSequence == tasks.cmd \in {"restore", "activate", "minimize"}

(* C23: every state-changing engine operation (update_windows, cycle,          *)
(* switch_to, sync_with_active, set_current_index) runs while holding the      *)
(* engine's mutual-exclusion lock, so a poll-driven update_windows never takes *)
(* effect between the index change and the last backend call of an             *)
(* in-progress cycle/switch sequence.                                          *)
C23_UnderLock ==
    /\ tasks.cmd # "idle" => tasks.lock = "cmd"
    /\ last.op \in {"update_windows", "set_current_index"} =>
          /\ tasks.lock = "free"
          /\ ~InSequence

\* a polled list waited for a command that was in progress, and was handed to
\* update_windows after it
C23_Witness ==
    /\ last.op = "update_windows"
    /\ tasks.waited
    /\ "windows" \in changed

(* C24: a backend call that never returns (hung external tool) blocks only the *)
(* call that invoked it: every other task's engine operation (the poll-driven  *)
(* update_windows, the overlay's mirror read and its rendering of the list)    *)
(* still eventually completes.                                                 *)
C24_OthersComplete == tasks.hung ~> (last.op = "render")

\* the clients of a Hyprland listing that enumerate makes records of, in
\* listing order
HyprlandEnumerated(clients) ==
    SelectSeq(clients, LAMBDA w : /\ w.title # Null
                                  /\ Matches(w.title)
                                  /\ w.address # Absent)

\* two address texts denote the same address: both are "0x" followed by the
\* same hex digits, leading zeros apart
SameAddress(a, b) ==
    /\ starts_with(a, "0x")
    /\ starts_with(b, "0x")
    /\ significant(Tail(a)) = significant(Tail(b))

\* an address as hyprctl prints it: "0x" and at least one hex digit after it
HexAddress(a) ==
    /\ starts_with(a, "0x")
    /\ Len(a) > 1
    /\ \A k \in 2..Len(a) : to_digit(a[k], 16) >= 0

(* C31: in the flat-list backend, for every record returned by enumerate, the  *)
(* address string that activate, minimize, restore and stack put in their      *)
(* commands for the record's id denotes the same address as the address field  *)
(* the record was enumerated from (address -> unsigned 32-bit handle ->        *)
(* address is a round trip), including for addresses wider than 32 bits.       *)
C31_AddressRoundTrip ==
    Answered("get_eve_windows", "Hyprland") =>
        LET from == HyprlandEnumerated(last.arg.input[1])
        IN  /\ reply # None
            /\ Len(reply[1]) = Len(from)
            /\ \A k \in 1..Len(from) :
                  HexAddress(from[k].address) =>
                     SameAddress(HyprlandAddress(reply[1][k].id), from[k].address)

\* the position in the effects of the first call of the kind, 0 if none
PositionOf(kind) ==
    IF \E k \in 1..Len(effects) : effects[k].op = kind
    THEN CHOOSE k \in 1..Len(effects) :
            /\ effects[k].op = kind
            /\ \A j \in 1..(k - 1) : effects[j].op # kind
    ELSE 0

(* C32: in the native-protocol backend, activate(id) performs its steps in     *)
(* this order: read the current focus (a failed read is taken as 0 and does    *)
(* not fail the activation), send the client-message event to the root window  *)
(* carrying source indicator 2, the current-time sentinel and the previous     *)
(* focus id, set input focus on the target, flush; set-input-focus is never    *)
(* issued before the client message and flush is always last.                  *)
C32_ActivationOrder ==
    Called("activate_window", "X11") =>
        LET got == last.arg.input
            focus == IF got.active.reply = "value" /\ got.active.value # <<>>
                     THEN got.active.value[1] ELSE 0
            kinds == [k \in 1..Len(effects) |-> effects[k].op]
            whole == <<"get_active_window", "send_event", "set_input_focus", "flush">>
        IN  /\ \E n \in 2..4 : kinds = SubSeq(whole, 1, n)
            /\ effects[1].arg.got = focus
            /\ effects[2].arg.destination = "root"
            /\ effects[2].arg.window = got.window_id
            /\ effects[2].arg.data = <<2, CURRENT_TIME, focus, 0, 0>>
            /\ Len(effects) >= 3 => effects[3].arg.focus = got.window_id
            /\ got.outcome # "connection_error" => kinds = whole /\ reply = Some(Unit)
            /\ got.outcome = "connection_error" =>
                  /\ Len(effects) = got.at + 1
                  /\ reply = None
            /\ \A k \in 1..Len(effects) :
                  (k < Len(effects) /\ k > 1) => effects[k].ok

\* an activation whose read of the current focus failed and whose requests
\* were all made
C32_Witness ==
    /\ Called("activate_window", "X11")
    /\ last.arg.input.active.reply = "error"
    /\ reply = Some(Unit)
    /\ Len(effects) = 4
    /\ ~effects[1].ok

\* an activation that found window 1 focused and was cut short by a
\* connection error at set_input_focus
C32_WitnessCut ==
    /\ Called("activate_window", "X11")
    /\ last.arg.input.active.value = <<1>>
    /\ last.arg.input.window_id = 2
    /\ PositionOf("set_input_focus") = 3
    /\ PositionOf("flush") = 0
    /\ reply = None

(* C33: writes to the persisted mirror are atomic with respect to a concurrent *)
(* reader: a reader running concurrently with a write observes either the      *)
(* complete previous value or the complete new value, never an empty or        *)
(* truncated value.                                                            *)
C33_AtomicWrite ==
    (last.op = "overlay_update" /\ tasks.writing # None) =>
        index_file \in {tasks.writing[1].previous, tasks.writing[1].new}

(* C34: with minimize-on-switch enabled, for any window list (including lists  *)
(* in which two records carry the same id), the id passed to minimize by       *)
(* cycle_forward, cycle_backward or switch_to is never the id that the same    *)
(* operation has just passed to activate.                                      *)
C34_NeverMinimizesActivated ==
    (last.op \in {"cycle_forward", "cycle_backward", "switch_to"} /\ last.minimize) =>
        \A a, m \in 1..Len(effects) :
            (effects[a].op = "activate" /\ effects[m].op = "minimize") =>
                effects[m].arg # effects[a].arg

\* the ids of the records in the engine's window list
ListedIds == {windows[k].id : k \in 1..Len(windows)}

(* C35: every id that cycle_forward, cycle_backward or switch_to passes to     *)
(* restore, activate or minimize is the id of a record that is in the engine's *)
(* window list at the time of the call; no backend call is ever made with an   *)
(* id taken from an earlier window list.                                       *)
C35_IdsFromCurrentList ==
    last.op \in {"cycle_forward", "cycle_backward", "switch_to"} =>
        \A k \in 1..Len(effects) :
            /\ effects[k].op \in {"restore", "activate", "minimize"} =>
                  effects[k].arg \in ListedIds
            /\ effects[k].op \in {"restore", "activate"} =>
                  effects[k].arg = windows[current_index + 1].id
            /\ effects[k].op = "minimize" =>
                  effects[k].arg = windows[pre.index + 1].id

\* window 1 was activated from an earlier list; the present list holds only
\* records of id 2, and the operation restored, activated and minimized on it
C35_Witness ==
    /\ last.op \in {"cycle_forward", "cycle_backward", "switch_to"}
    /\ activated # None
    /\ 1 \in activated[1]
    /\ ListedIds = {2}
    /\ Len(windows) = 2
    /\ \A kind \in {"restore", "activate", "minimize"} :
          \E k \in 1..Len(effects) : effects[k].op = kind

\* the last step was a frame of the overlay that left the file, the list, the
\* index and last_index as they were: with the mirror and the list unchanged,
\* every later frame does the same
SettledFrame == last.op = "overlay_update" /\ changed = {}

(* C36: the overlay reader follows the mirror: whenever the mirror holds a     *)
(* parsable value v that is a valid index for the reader's current nonempty    *)
(* window list, and the mirror and the list then stay unchanged, the reader's  *)
(* current_index eventually equals v (in particular after a value was first    *)
(* read while it was out of range, or after update_windows reset the index to  *)
(* 0).                                                                         *)
C36_FollowsMirror ==
    LET read == read_index_from_file(index_file)
    IN  (SettledFrame /\ read # None /\ read[1] < Len(windows)) =>
            current_index = read[1]

(* C37: for every shell/IPC backend, stack is idempotent: applying stack twice *)
(* to the same window list leaves every window in the same floating mode,      *)
(* position and size as applying it once.                                      *)
C37_StackIdempotent ==
    \A backend \in {"KWin", "Sway", "Hyprland"} :
        (Called("stack_windows", backend) /\ Len(effects) = 2) =>
            \A id \in Ids : effects[2].arg[id] = effects[1].arg[id]
====
